---------------------------- MODULE Spec2Model ----------------------------
(***************************************************************************)
(* A model of the layout engine of diargos (src/src/util.rs):              *)
(*   - Util::trim_display_str_elided, the display-width aware text fitter. *)
(*   - Interpolator / MultiFigments, the multi-value fragment iterator.    *)
(*                                                                         *)
(* Strings are sequences of characters.  The code looks at a character     *)
(* only through its display width (UnicodeWidthChar::width), so the        *)
(* alphabet holds one character per width class: "a" (narrow, 1 cell),    *)
(* "JP" (a wide East-Asian character, 2 cells) and "cm" (a combining      *)
(* mark, 0 cells).  A byte offset on a character boundary is modelled by   *)
(* the number of characters before it.                                     *)
(***************************************************************************)
EXTENDS Integers, Sequences, FiniteSets, TLC

VARIABLES
    trim_args,   \* the arguments of a call of trim_display_str_elided
    trim_ret,    \* what the call returned (returned = FALSE before the call)
    mf_args,     \* the arguments of MultiFigments::new
    mf,          \* MultiFigments: the struct {offset, ellipsis, ellipsis_width, state}
    mf_item,     \* what the last call of MultiFigments::next returned
    mf_yield,    \* every (offset, fragment) pair yielded so far, in order, with
                 \* the part of next() that produced it
    shift_args,  \* the receiver and arguments of a call of Cursor::shift
    shift_ret,   \* the cursor after the call (done = FALSE before the call)
    sort_args,   \* the Data and the arguments of a call of sort_by_column_index
    sort_ret,    \* the Data after the call (done = FALSE before the call)
    model,       \* the Model: data, cursor, cached_content_widths, dirty
    model_op,    \* the method of the Model that was called last
    model_call,  \* what that call did: whether it recomputed the widths, and
                 \* what it returned
    layout,      \* a table on its way from the parsed sizings to the widths,
                 \* the total width and the offset of a column
    view,        \* the UI thread in the callbacks of TagRecordView: its call
                 \* stack and the mutex of the shared Model
    pa           \* PrintAtoms: the strings and widths it was made with, the
                 \* struct, what next() returned last and all it yielded

trim_vars == <<trim_args, trim_ret>>
multi_vars == <<mf_args, mf, mf_item, mf_yield>>
shift_vars == <<shift_args, shift_ret>>
sort_vars == <<sort_args, sort_ret>>
model_vars == <<model, model_op, model_call>>
layout_vars == <<layout>>
view_vars == <<view>>
print_vars == <<pa>>
vars == <<trim_args, trim_ret, mf_args, mf, mf_item, mf_yield,
          shift_args, shift_ret, sort_args, sort_ret, model, model_op, model_call,
          layout, view, pa>>

----------------------------------------------------------------------------
(* Bounds of the model. *)

\* longest string handed to trim_display_str_elided
MaxLen == 4
\* largest target_width
MaxWidth == 6
\* largest ellipsis_width handed to trim_display_str_elided
MaxEllipsis == 3

----------------------------------------------------------------------------
(* Characters, strings and display widths. *)

Chars == {"a", "JP", "cm"}

\* ch.width().unwrap_or(0)
CharWidth(ch) == CASE ch = "JP" -> 2
                   [] ch = "cm" -> 0
                   [] OTHER -> 1

\* UnicodeWidthStr::width: the sum of the characters' widths
RECURSIVE StrWidth(_)
StrWidth(s) == IF s = <<>> THEN 0 ELSE CharWidth(Head(s)) + StrWidth(Tail(s))

StrsUpTo(n) == UNION {[1..k -> Chars] : k \in 0..n}

\* usize::saturating_sub
saturating_sub(a, b) == IF a >= b THEN a - b ELSE 0

----------------------------------------------------------------------------
(* Util::trim_display_str_elided *)

Untrimmed == [trimmed |-> FALSE, padding |-> 0, emit_ellipsis |-> FALSE]
Trimmed(padding, emit_ellipsis) ==
    [trimmed |-> TRUE, padding |-> padding, emit_ellipsis |-> emit_ellipsis]

\* TrimOutput::ellipsis_offset
ellipsis_offset(out) == out.output_width + out.trim_status.padding

\* (variant: the too-wide ellipsis is kept)
EffectiveEllipsisKeepsWide(target_width, ellipsis_width) == ellipsis_width
\* "If the ellipsis is too wide for this target width, set it to 0."
EffectiveEllipsis(target_width, ellipsis_width) ==
    IF target_width < ellipsis_width THEN 0 ELSE ellipsis_width

\* let elided_width = target_width.saturating_sub(ellipsis_width);
\* (ellipsis_width is the effective one here)
ElidedWidth(target_width, ellipsis_width) ==
    saturating_sub(target_width, ellipsis_width)

\* (variant: the flag is not consulted)
PastElisionEveryTime(past_elision_point, curr_width, elided_width) ==
    curr_width > elided_width
\* (variant: >= for >)
PastElisionInclusive(past_elision_point, curr_width, elided_width) ==
    ~past_elision_point /\ curr_width >= elided_width
\* if !past_elision_point && curr_width > elided_width
PastElision(past_elision_point, curr_width, elided_width) ==
    ~past_elision_point /\ curr_width > elided_width

\* (variant: the cut is recorded behind the character that crossed the limit)
ElisionCutAfterChar(i, last_width, curr_width, elided_width) ==
    [elided_i |-> i + 1,
     padding |-> elided_width - last_width,
     output_width |-> curr_width,
     underflow |-> elided_width < last_width]
\* The body of that if: the cut is recorded before the character at index i
\* (i characters precede it), with the width accumulated before it.
\* The subtraction is a plain usize subtraction: it fails when it underflows.
ElisionCut(i, last_width, curr_width, elided_width) ==
    [elided_i |-> i,
     padding |-> elided_width - last_width,
     output_width |-> last_width,
     underflow |-> elided_width < last_width]

\* (variant: >= for >)
ExceedsTargetInclusive(curr_width, target_width) == curr_width >= target_width
\* if curr_width > target_width: "Stop once the current width strictly
\* exceeds the target width."
ExceedsTarget(curr_width, target_width) == curr_width > target_width

\* (variant: the ellipsis is always asked for)
PrintEllipsisAlways(ellipsis_width) == TRUE
\* let print_ellipsis = ellipsis_width != 0;
PrintEllipsis(ellipsis_width) == ellipsis_width # 0

\* (variant: the width of the kept prefix is not added)
FullRealWidthOfRest(original_str, elided_i, output_width) ==
    StrWidth(SubSeq(original_str, elided_i + 1, Len(original_str)))
\* original_str[elided_i..].width().saturating_add(output_width)
FullRealWidth(original_str, elided_i, output_width) ==
    StrWidth(SubSeq(original_str, elided_i + 1, Len(original_str))) + output_width

\* The for loop over original_str.char_indices(), from the character at
\* index i on; st holds the loop's mutable locals.
RECURSIVE TrimScan(_, _, _, _, _)
TrimScan(original_str, target_width, ellipsis_width, i, st) ==
    IF i >= Len(original_str)
    THEN \* the scan completed: the string does not need trimming
         [returned |-> TRUE,
          failed |-> st.underflow,
          display_str |-> original_str,
          output_width |-> st.curr_width,
          full_real_width |-> st.curr_width,
          trim_status |-> Untrimmed]
    ELSE LET ch == original_str[i + 1]
             elided_width == ElidedWidth(target_width, ellipsis_width)
             last_width == st.curr_width
             curr_width == last_width + CharWidth(ch)
             cut == ElisionCut(i, last_width, curr_width, elided_width)
             st1 == IF PastElision(st.past_elision_point, curr_width, elided_width)
                    THEN [curr_width |-> curr_width,
                          past_elision_point |-> TRUE,
                          elided_i |-> cut.elided_i,
                          padding |-> cut.padding,
                          output_width |-> cut.output_width,
                          underflow |-> st.underflow \/ cut.underflow]
                    ELSE [st EXCEPT !.curr_width = curr_width]
         IN IF ExceedsTarget(curr_width, target_width)
            THEN [returned |-> TRUE,
                  failed |-> st1.underflow,
                  display_str |-> SubSeq(original_str, 1, st1.elided_i),
                  output_width |-> st1.output_width,
                  full_real_width |->
                      FullRealWidth(original_str, st1.elided_i, st1.output_width),
                  trim_status |-> Trimmed(st1.padding, PrintEllipsis(ellipsis_width))]
            ELSE TrimScan(original_str, target_width, ellipsis_width, i + 1, st1)

trim_display_str_elided(original_str, target_width, ellipsis_width) ==
    TrimScan(original_str, target_width,
             EffectiveEllipsis(target_width, ellipsis_width), 0,
             [curr_width |-> 0, past_elision_point |-> FALSE, elided_i |-> 0,
              padding |-> 0, output_width |-> 0, underflow |-> FALSE])

\* (variant: the string may take one cell more than the target)
trim_display_str_one_more(original_str, target_width) ==
    trim_display_str_elided(original_str, target_width + 1, 0)
\* Util::trim_display_str
trim_display_str(original_str, target_width) ==
    trim_display_str_elided(original_str, target_width, 0)

NotReturned == [returned |-> FALSE]

----------------------------------------------------------------------------
(* Interpolator: alternates between the values and the separator. *)

\* Interpolator::new
InterpolatorNew == [index |-> 0, emit_sep |-> FALSE]

\* (variant: the separator is emitted without looking for a value behind it)
InterpolatorNextTrailingSep(iter, values, separator) ==
    IF iter.emit_sep
    THEN [some |-> TRUE, item |-> separator,
          iter |-> [iter EXCEPT !.emit_sep = ~iter.emit_sep]]
    ELSE IF iter.index >= Len(values)
         THEN [some |-> FALSE, item |-> <<>>, iter |-> iter]
         ELSE [some |-> TRUE, item |-> values[iter.index + 1],
               iter |-> [index |-> iter.index + 1, emit_sep |-> ~iter.emit_sep]]
\* Interpolator::next: [some, item, iter], iter being the iterator afterwards.
\* values.get(index)? returns None and leaves the iterator as it was.
InterpolatorNext(iter, values, separator) ==
    IF iter.index >= Len(values)
    THEN [some |-> FALSE, item |-> <<>>, iter |-> iter]
    ELSE IF iter.emit_sep
         THEN [some |-> TRUE, item |-> separator,
               iter |-> [iter EXCEPT !.emit_sep = ~iter.emit_sep]]
         ELSE [some |-> TRUE, item |-> values[iter.index + 1],
               iter |-> [index |-> iter.index + 1, emit_sep |-> ~iter.emit_sep]]

----------------------------------------------------------------------------
(* MultiFigments *)

\* enum State
StateHead(figment_iter, target_width, uncontested_width) ==
    [kind |-> "Head", figment_iter |-> figment_iter,
     target_width |-> target_width, uncontested_width |-> uncontested_width]
StateTail(figment_iter) == [kind |-> "Tail", figment_iter |-> figment_iter]
\* (variant: the padding of the trim is forgotten)
StateEllipsisNoPadding(padding) == [kind |-> "Ellipsis", padding |-> 0]
StateEllipsis(padding) == [kind |-> "Ellipsis", padding |-> padding]
StateDone == [kind |-> "Done"]

\* "If the ellipsis is too wide for the target width, do not try and print it."
MultiEllipsisWidth(ellipsis, target_width) ==
    IF StrWidth(ellipsis) <= target_width THEN StrWidth(ellipsis) ELSE 0

\* MultiFigments::new
MultiFigmentsNew(values, target_width, separator, ellipsis) ==
    LET ellipsis_width == MultiEllipsisWidth(ellipsis, target_width)
        uncontested_width == saturating_sub(target_width, ellipsis_width)
    IN [offset |-> 0,
        ellipsis |-> ellipsis,
        ellipsis_width |-> ellipsis_width,
        state |-> StateHead(InterpolatorNew, target_width, uncontested_width)]

\* Option<(usize, &str)>, and the panic of unreachable!()
ItemNone == [kind |-> "None", offset |-> 0, fragment |-> <<>>]
ItemSome(offset, fragment) == [kind |-> "Some", offset |-> offset, fragment |-> fragment]
ItemPanic == [kind |-> "Panic", offset |-> 0, fragment |-> <<>>]
\* before the first call
ItemStart == [kind |-> "Start", offset |-> 0, fragment |-> <<>>]

\* (variant: >= for >)
FrontierOverflowsInclusive(frontier_offset, target_width) ==
    frontier_offset >= target_width
\* if frontier_offset > target_width
FrontierOverflows(frontier_offset, target_width) == frontier_offset > target_width

\* The loop over frontier_iter after its first element: the remaining
\* figments of figment_iter, their widths added to frontier_offset.
\* TRUE when some running sum overflows the target width.
RECURSIVE FrontierRest(_, _, _, _, _)
FrontierRest(iter, frontier_offset, target_width, values, separator) ==
    LET r == InterpolatorNext(iter, values, separator)
        next_offset == frontier_offset + StrWidth(r.item)
    IN IF ~r.some THEN FALSE
       ELSE IF FrontierOverflows(next_offset, target_width) THEN TRUE
       ELSE FrontierRest(r.iter, next_offset, target_width, values, separator)

\* The whole loop: once(Width(figment_width)).chain(figment_iter)
Frontier(iter, offset, figment_width, target_width, values, separator) ==
    LET frontier_offset == offset + figment_width
    IN IF FrontierOverflows(frontier_offset, target_width) THEN TRUE
       ELSE FrontierRest(iter, frontier_offset, target_width, values, separator)

\* (variant: the offset advances by the untrimmed width, as in the other arms)
OffsetAfterTrimFullWidth(offset, trim_output) == offset + trim_output.full_real_width
\* self.offset += trim_output.output_width: "The offset increases by the
\* trimmed length of the boundary figment."
OffsetAfterTrim(offset, trim_output) == offset + trim_output.output_width

\* State::Head arm of MultiFigments::next: [item, mf], the returned item and
\* the struct afterwards.
NextInHead(m, values, separator) ==
    LET st == m.state
        r == InterpolatorNext(st.figment_iter, values, separator)
        figment == r.item
        advanced == [m EXCEPT !.state.figment_iter = r.iter]
    IN IF ~r.some THEN [item |-> ItemNone, what |-> "none", mf |-> m]
       ELSE IF st.uncontested_width < m.offset
       THEN \* checked_sub gave None: unreachable!("")
            [item |-> ItemPanic, what |-> "none", mf |-> advanced]
       ELSE
        LET rem_uc_width == st.uncontested_width - m.offset
            trim_output == trim_display_str(figment, rem_uc_width)
            figment_width == trim_output.full_real_width
            backup_iter == r.iter
        IN IF trim_output.failed
           THEN [item |-> ItemPanic, what |-> "none", mf |-> advanced]
           ELSE IF trim_output.trim_status.trimmed
           THEN IF Frontier(r.iter, m.offset, figment_width, st.target_width,
                            values, separator)
                THEN \* overflow: emit the trimmed boundary
                     [item |-> ItemSome(m.offset, trim_output.display_str),
                      what |-> "figment",
                      mf |-> [m EXCEPT
                                !.offset = OffsetAfterTrim(m.offset, trim_output),
                                !.state = StateEllipsis(trim_output.trim_status.padding)]]
                ELSE \* everything fits: emit untrimmed, go to the tail
                     [item |-> ItemSome(m.offset, figment),
                      what |-> "figment",
                      mf |-> [m EXCEPT
                                !.offset = m.offset + figment_width,
                                !.state = StateTail(backup_iter)]]
           ELSE \* no trimming occurred
                [item |-> ItemSome(m.offset, figment),
                 what |-> "figment",
                 mf |-> [advanced EXCEPT
                           !.offset = m.offset + trim_output.full_real_width]]

\* (variant: the offset stays where the boundary figment left it)
NextInTailOffsetKept(m, values, separator) ==
    LET r == InterpolatorNext(m.state.figment_iter, values, separator)
    IN IF ~r.some THEN [item |-> ItemNone, what |-> "none", mf |-> m]
       ELSE [item |-> ItemSome(m.offset, r.item),
             what |-> "figment",
             mf |-> [m EXCEPT !.state.figment_iter = r.iter]]
\* State::Tail arm
NextInTail(m, values, separator) ==
    LET r == InterpolatorNext(m.state.figment_iter, values, separator)
    IN IF ~r.some THEN [item |-> ItemNone, what |-> "none", mf |-> m]
       ELSE [item |-> ItemSome(m.offset, r.item),
             what |-> "figment",
             mf |-> [m EXCEPT !.offset = m.offset + StrWidth(r.item),
                              !.state.figment_iter = r.iter]]

\* " ": one narrow cell, told apart from the characters of the values
Space == <<"sp">>

\* State::Ellipsis arm
NextInEllipsis(m) ==
    IF m.state.padding > 0
    THEN [item |-> ItemSome(m.offset, Space),
          what |-> "padding",
          mf |-> [m EXCEPT !.offset = m.offset + 1,
                           !.state.padding = m.state.padding - 1]]
    ELSE [item |-> ItemSome(m.offset, m.ellipsis),
          what |-> "ellipsis",
          mf |-> [m EXCEPT !.offset = m.offset + m.ellipsis_width,
                           !.state = StateDone]]

\* State::Done arm
NextInDone(m) == [item |-> ItemNone, what |-> "none", mf |-> m]

----------------------------------------------------------------------------
(* The inputs the model draws. *)

\* most values of one field
MaxValues == 2
\* most characters the values of one field hold together
MaxValueChars == 3

\* the lists of n values that hold at most c characters together
RECURSIVE ValueLists(_, _)
ValueLists(n, c) ==
    IF n = 0 THEN {<<>>}
    ELSE UNION {{<<s>> \o rest : rest \in ValueLists(n - 1, c - Len(s))} :
                s \in StrsUpTo(c)}

\* "" , "|", a two-cell separator whose second character is wide
Separators == {<<>>, <<"a">>, <<"a", "JP">>}
\* "" (no ellipsis), a one-cell ellipsis, "..."
Ellipses == {<<>>, <<"a">>, <<"a", "a", "a">>}

----------------------------------------------------------------------------
(* Cursor (src/src/cursor.rs).  usize is scaled down: the largest value is   *)
(* UsizeMax, where saturating arithmetic saturates.                          *)

\* usize::MAX of the scaled-down word
UsizeMax == 15
\* largest ordinary coordinate, count or bound handed to Cursor::shift
MaxCoord == 3

\* enum Cursor
Cell(x, y) == [mode |-> "Cell", x |-> x, y |-> y]
Column(x) == [mode |-> "Column", x |-> x]

\* enum CursorDir
CursorDirs == {"U", "D", "L", "R"}

Min(a, b) == IF a <= b THEN a ELSE b
Max(a, b) == IF a >= b THEN a ELSE b

\* (variant: the addition wraps around)
wrapping_add(a, b) == (a + b) % (UsizeMax + 1)
\* usize::saturating_add
saturating_add(a, b) == IF a + b > UsizeMax THEN UsizeMax ELSE a + b

\* (variant: the column is given in Cell mode too)
column_index_any_mode(cursor) == [some |-> TRUE, x |-> cursor.x]
\* Cursor::column_index: Some(x) in Column mode, None in Cell mode
column_index(cursor) ==
    IF cursor.mode = "Cell" THEN [some |-> FALSE, x |-> 0]
    ELSE [some |-> TRUE, x |-> cursor.x]

\* (variant: the bound itself is taken for the largest index)
clampToBound(cursor, bound_x, bound_y) ==
    IF cursor.mode = "Cell"
    THEN Cell(Min(bound_x, cursor.x), Min(bound_y, cursor.y))
    ELSE Column(Min(bound_x, cursor.x))
\* Cursor::clamp
clamp(cursor, bound_x, bound_y) ==
    LET max_idx_x == saturating_sub(bound_x, 1)
        max_idx_y == saturating_sub(bound_y, 1)
    IN IF cursor.mode = "Cell"
       THEN Cell(Min(max_idx_x, cursor.x), Min(max_idx_y, cursor.y))
       ELSE Column(Min(max_idx_x, cursor.x))

\* (variant: the row saturates at 0 and the cursor stays in the grid)
ShiftUpSaturating(cursor, n) ==
    IF cursor.mode = "Cell"
    THEN Cell(cursor.x, saturating_sub(cursor.y, n))
    ELSE cursor
\* CursorDir::U arm: y.checked_sub(n) is None when n > y
ShiftUp(cursor, n) ==
    IF cursor.mode = "Cell"
    THEN IF cursor.y >= n THEN Cell(cursor.x, cursor.y - n)
         ELSE Column(cursor.x)
    ELSE cursor

\* (variant: a Column cursor enters the grid n rows down)
ShiftDownFromRowN(cursor, n) ==
    IF cursor.mode = "Cell"
    THEN Cell(cursor.x, saturating_add(cursor.y, n))
    ELSE Cell(cursor.x, n)
\* CursorDir::D arm
ShiftDown(cursor, n) ==
    IF cursor.mode = "Cell"
    THEN Cell(cursor.x, saturating_add(cursor.y, n))
    ELSE Cell(cursor.x, saturating_sub(n, 1))

\* (variant: the column is added to, as in the R arm)
ShiftLeftAdds(cursor, n) ==
    IF cursor.mode = "Cell"
    THEN Cell(saturating_add(cursor.x, n), cursor.y)
    ELSE Column(saturating_add(cursor.x, n))
\* CursorDir::L arm
ShiftLeft(cursor, n) ==
    IF cursor.mode = "Cell"
    THEN Cell(saturating_sub(cursor.x, n), cursor.y)
    ELSE Column(saturating_sub(cursor.x, n))

\* CursorDir::R arm
ShiftRight(cursor, n) ==
    IF cursor.mode = "Cell"
    THEN Cell(saturating_add(cursor.x, n), cursor.y)
    ELSE Column(saturating_add(cursor.x, n))

\* (variant: the arms run for a delta of 0 too)
MovedAlways(cursor, dir, n) ==
    CASE dir = "U" -> ShiftUp(cursor, n)
      [] dir = "D" -> ShiftDown(cursor, n)
      [] dir = "L" -> ShiftLeft(cursor, n)
      [] dir = "R" -> ShiftRight(cursor, n)
\* The first half of Cursor::shift: "Skip work if a delta of 0 is given."
Moved(cursor, dir, n) ==
    IF n > 0
    THEN CASE dir = "U" -> ShiftUp(cursor, n)
           [] dir = "D" -> ShiftDown(cursor, n)
           [] dir = "L" -> ShiftLeft(cursor, n)
           [] dir = "R" -> ShiftRight(cursor, n)
    ELSE cursor

\* (variant: a delta of 0 returns before the clamp)
shiftSkipsZero(cursor, dir, n, bound_x, bound_y) ==
    IF n > 0 THEN clamp(Moved(cursor, dir, n), bound_x, bound_y) ELSE cursor
\* Cursor::shift: "Still want to clamp, even if a delta of 0 was given."
shift(cursor, dir, n, bound_x, bound_y) ==
    clamp(Moved(cursor, dir, n), bound_x, bound_y)

\* the values of a usize the model draws: the small ones and the largest two
Usizes == (0..MaxCoord) \cup {UsizeMax - 1, UsizeMax}
Cursors == {Cell(x, y) : x \in Usizes, y \in Usizes} \cup {Column(x) : x \in Usizes}

CursorIdle ==
    /\ shift_args = [cursor |-> Cell(0, 0), dir |-> "U", n |-> 0,
                     bound_x |-> 0, bound_y |-> 0]
    /\ shift_ret = [done |-> FALSE, cursor |-> Cell(0, 0)]

----------------------------------------------------------------------------
(* Data (src/src/data.rs): columns, records and the sort. *)

\* Option<&str>
OptNone == [some |-> FALSE, val |-> <<>>]
OptSome(v) == [some |-> TRUE, val |-> v]

\* enum ColumnKey
Meta(meta_key) == [kind |-> "Meta", name |-> meta_key]
Info(info_kind) == [kind |-> "Info", name |-> info_kind]

\* enum Sizing
Auto == [kind |-> "Auto"]
Fixed(width) == [kind |-> "Fixed", width |-> width]
Lower(min_width) == [kind |-> "Lower", min |-> min_width]
Upper(max_width) == [kind |-> "Upper", max |-> max_width]
Bound(min_width, max_width) == [kind |-> "Bound", min |-> min_width, max |-> max_width]

\* enum SizingRepr, the parsed form
ReprAuto == [repr |-> "Auto"]
ReprFixed(width) == [repr |-> "Fixed", width |-> width]
ReprLower(min_width) == [repr |-> "Lower", min |-> min_width]
ReprUpper(max_width) == [repr |-> "Upper", max |-> max_width]
ReprBound(min_width, max_width) == [repr |-> "Bound", min |-> min_width, max |-> max_width]

\* (variant: the pair is taken over as it was parsed)
SizingFromUnordered(repr) ==
    CASE repr.repr = "Auto" -> Auto
      [] repr.repr = "Fixed" -> Fixed(repr.width)
      [] repr.repr = "Lower" -> Lower(repr.min)
      [] repr.repr = "Upper" -> Upper(repr.max)
      [] repr.repr = "Bound" -> Bound(repr.min, repr.max)
\* <Sizing as From<SizingRepr>>::from: "Ensure proper order."
SizingFrom(repr) ==
    CASE repr.repr = "Auto" -> Auto
      [] repr.repr = "Fixed" -> Fixed(repr.width)
      [] repr.repr = "Lower" -> Lower(repr.min)
      [] repr.repr = "Upper" -> Upper(repr.max)
      [] repr.repr = "Bound" ->
             IF repr.min > repr.max THEN Bound(repr.min, repr.min)
             ELSE Bound(repr.min, repr.max)

\* struct Column
NewColumn(key, title, sizing) == [key |-> key, title |-> title, sizing |-> sizing]

\* struct Record: the metadata map is a function on the keys it holds; the
\* path is the sequence of its components
NewRecord(metadata, file_path) == [metadata |-> metadata, file_path |-> file_path]

\* Record::get_meta
get_meta(record, meta_key) ==
    IF meta_key \in DOMAIN record.metadata
    THEN OptSome(record.metadata[meta_key])
    ELSE OptNone

\* Path::to_str of a path of valid Unicode: the components joined by "/"
RECURSIVE PathStr(_)
PathStr(path) ==
    IF path = <<>> THEN <<>>
    ELSE IF Len(path) = 1 THEN Head(path)
    ELSE Head(path) \o <<"/">> \o PathStr(Tail(path))

\* Record::get_info: the file name is the last component, if there is one
get_info(record, info_kind) ==
    IF info_kind = "FileName"
    THEN IF record.file_path = <<>> THEN OptNone
         ELSE OptSome(record.file_path[Len(record.file_path)])
    ELSE OptSome(PathStr(record.file_path))

\* Record::get
get(record, column_key) ==
    IF column_key.kind = "Meta" THEN get_meta(record, column_key.name)
    ELSE get_info(record, column_key.name)

\* the order of the characters' UTF-8 encodings: "/" (2F), "a" (61), the
\* combining mark (CC ..), the wide character (E3 ..)
CharOrd(ch) == CASE ch = "/" -> 0
                 [] ch = "a" -> 1
                 [] ch = "cm" -> 2
                 [] ch = "JP" -> 3

\* Ordering::reverse
reverse(o) == CASE o = "Less" -> "Greater"
                [] o = "Greater" -> "Less"
                [] OTHER -> "Equal"

\* (variant: the shorter string is the lesser one, whatever it holds)
RECURSIVE StrCmpShortFirst(_, _)
StrCmpShortFirst(a, b) ==
    IF Len(a) < Len(b) THEN "Less"
    ELSE IF Len(a) > Len(b) THEN "Greater"
    ELSE IF a = <<>> THEN "Equal"
    ELSE IF CharOrd(Head(a)) < CharOrd(Head(b)) THEN "Less"
    ELSE IF CharOrd(Head(a)) > CharOrd(Head(b)) THEN "Greater"
    ELSE StrCmpShortFirst(Tail(a), Tail(b))
\* str::cmp: lexicographic by bytes
RECURSIVE StrCmp(_, _)
StrCmp(a, b) ==
    IF a = <<>> /\ b = <<>> THEN "Equal"
    ELSE IF a = <<>> THEN "Less"
    ELSE IF b = <<>> THEN "Greater"
    ELSE IF CharOrd(Head(a)) < CharOrd(Head(b)) THEN "Less"
    ELSE IF CharOrd(Head(a)) > CharOrd(Head(b)) THEN "Greater"
    ELSE StrCmp(Tail(a), Tail(b))

\* the match on the two values in the closure of sort_by_column_index
CompareValues(va, vb) ==
    CASE ~va.some /\ ~vb.some -> "Equal"
      [] ~va.some /\ vb.some -> "Less"
      [] va.some /\ ~vb.some -> "Greater"
      [] OTHER -> StrCmp(va.val, vb.val)

\* (variant: only the comparison of two present values is reversed)
ComparatorAbsentFirst(ra, rb, column_key, is_descending) ==
    LET va == get(ra, column_key)
        vb == get(rb, column_key)
    IN IF is_descending /\ va.some /\ vb.some
       THEN reverse(CompareValues(va, vb))
       ELSE CompareValues(va, vb)
\* the closure handed to sort_by
Comparator(ra, rb, column_key, is_descending) ==
    LET o == CompareValues(get(ra, column_key), get(rb, column_key))
    IN IF is_descending THEN reverse(o) ELSE o

\* (variant: a record equal to one already in order is left out)
InsertUnlessEqual(sorted, r, column_key, is_descending) ==
    IF \E i \in 1..Len(sorted) :
           Comparator(sorted[i], r, column_key, is_descending) = "Equal"
    THEN sorted
    ELSE IF sorted # <<>>
            /\ Comparator(Head(sorted), r, column_key, is_descending) = "Greater"
    THEN <<r>> \o sorted
    ELSE sorted \o <<r>>
\* the place of a record among records already in order: behind every record
\* that is not greater than it
RECURSIVE InsertBehindEqual(_, _, _, _)
InsertBehindEqual(sorted, r, column_key, is_descending) ==
    IF sorted = <<>> THEN <<r>>
    ELSE IF Comparator(Head(sorted), r, column_key, is_descending) = "Greater"
    THEN <<r>> \o sorted
    ELSE <<Head(sorted)>> \o
         InsertBehindEqual(Tail(sorted), r, column_key, is_descending)

\* the place in front of every record that is not less than it
RECURSIVE InsertBeforeEqual(_, _, _, _)
InsertBeforeEqual(sorted, r, column_key, is_descending) ==
    IF sorted = <<>> THEN <<r>>
    ELSE IF Comparator(Head(sorted), r, column_key, is_descending) # "Less"
    THEN <<r>> \o sorted
    ELSE <<Head(sorted)>> \o
         InsertBeforeEqual(Tail(sorted), r, column_key, is_descending)

\* (variant: a sort that puts a record in front of the records equal to it)
RECURSIVE sort_by_unstable(_, _, _)
sort_by_unstable(records, column_key, is_descending) ==
    IF records = <<>> THEN <<>>
    ELSE InsertBeforeEqual(
             sort_by_unstable(SubSeq(records, 1, Len(records) - 1),
                              column_key, is_descending),
             records[Len(records)], column_key, is_descending)
\* slice::sort_by with the closure: the stable sort, which is the one order
\* that the comparator and the order of the input determine
RECURSIVE sort_by(_, _, _)
sort_by(records, column_key, is_descending) ==
    IF records = <<>> THEN <<>>
    ELSE InsertBehindEqual(
             sort_by(SubSeq(records, 1, Len(records) - 1), column_key, is_descending),
             records[Len(records)], column_key, is_descending)

\* (variant: an index past the columns sorts by the last column)
sort_by_column_index_clamped(data, index, is_descending) ==
    IF data.columns = <<>> THEN data
    ELSE [data EXCEPT !.records =
              sort_by(data.records, data.columns[Min(index + 1, Len(data.columns))].key,
                      is_descending)]
\* Data::sort_by_column_index; the index counts from 0
sort_by_column_index(data, index, is_descending) ==
    IF index < Len(data.columns)
    THEN [data EXCEPT !.records =
              sort_by(data.records, data.columns[index + 1].key, is_descending)]
    ELSE data

\* most records of a Data that is sorted
MaxRecords == 3

\* the one metadata key of the records
MetaKeys == {"ARTIST"}
\* "", "a", "aa", a wide character: the values of a metadata key
MetaValues == {<<>>, <<"a">>, <<"a", "a">>, <<"JP">>}
\* the empty path, "a" and "JP/a"
FilePaths == {<<>>, << <<"a">> >>, << <<"JP">>, <<"a">> >>}
\* a record holds the key or not
AllRecords ==
    {NewRecord(m, f) : m \in UNION {[K -> MetaValues] : K \in SUBSET MetaKeys},
                       f \in FilePaths}
RecordsUpTo(n) == UNION {[1..k -> AllRecords] : k \in 0..n}

\* a column for each kind of key
SortColumns == <<NewColumn(Meta("ARTIST"), <<"a">>, Auto),
                 NewColumn(Info("FileName"), <<"a">>, Auto),
                 NewColumn(Info("FilePath"), <<"a">>, Auto)>>

SortIdle ==
    /\ sort_args = [data |-> [columns |-> <<>>, records |-> <<>>],
                    column_index |-> 0, is_descending |-> FALSE]
    /\ sort_ret = [done |-> FALSE, data |-> [columns |-> <<>>, records |-> <<>>]]

----------------------------------------------------------------------------
(* Model (src/src/model.rs): the Data, the cursor and the cache of the      *)
(* columns' content widths with its dirty flag.                             *)

\* (variant: the title is not measured)
RECURSIVE max_column_content_width_no_title(_, _)
max_column_content_width_no_title(column, records) ==
    IF records = <<>> THEN 0
    ELSE LET v == get(records[Len(records)], column.key)
             curr_row_width == IF v.some THEN StrWidth(v.val) ELSE 0
         IN Max(max_column_content_width_no_title(
                    column, SubSeq(records, 1, Len(records) - 1)),
                curr_row_width)
\* (variant: only the first record is measured)
max_column_content_width_first(column, records) ==
    IF records = <<>> THEN StrWidth(column.title)
    ELSE LET v == get(records[1], column.key)
         IN Max(StrWidth(column.title), IF v.some THEN StrWidth(v.val) ELSE 0)
\* Util::max_column_content_width
RECURSIVE max_column_content_width(_, _)
max_column_content_width(column, records) ==
    IF records = <<>> THEN StrWidth(column.title)
    ELSE LET v == get(records[Len(records)], column.key)
             curr_row_width == IF v.some THEN StrWidth(v.val) ELSE 0
         IN Max(max_column_content_width(column, SubSeq(records, 1, Len(records) - 1)),
                curr_row_width)

\* the widths of the sizings that ask for a least or a largest width: the
\* measured width floored, capped, or both
LowerWidth(auto, min_width) == Max(auto, min_width)
UpperWidth(auto, max_width) == Min(auto, max_width)
BoundWidth(auto, min_width, max_width) == Min(Max(auto, min_width), max_width)

\* the match on the column's sizing in Model::recache
ContentWidth(column, records) ==
    CASE column.sizing.kind = "Fixed" -> column.sizing.width
      [] column.sizing.kind = "Auto" -> max_column_content_width(column, records)
      [] column.sizing.kind = "Lower" ->
             LowerWidth(max_column_content_width(column, records), column.sizing.min)
      [] column.sizing.kind = "Upper" ->
             UpperWidth(max_column_content_width(column, records), column.sizing.max)
      [] column.sizing.kind = "Bound" ->
             BoundWidth(max_column_content_width(column, records),
                        column.sizing.min, column.sizing.max)

\* the widths Model::recache pushes, one for each column
ContentWidths(data) ==
    [i \in 1..Len(data.columns) |-> ContentWidth(data.columns[i], data.records)]

\* (variant: the widths are recomputed whatever the flag says)
RecomputesAlways(m) == TRUE
\* the test that opens Model::recache: "Proceed and clear the flag if it was
\* set.  Otherwise, bail out."
Recomputes(m) == m.dirty

\* (variant: the widths are pushed behind the ones of the last recompute)
recache_without_clear(m) ==
    IF Recomputes(m)
    THEN [m EXCEPT !.dirty = FALSE,
                   !.cached_content_widths =
                       m.cached_content_widths \o ContentWidths(m.data)]
    ELSE m
\* Model::recache
recache(m) ==
    IF Recomputes(m)
    THEN [m EXCEPT !.dirty = FALSE, !.cached_content_widths = ContentWidths(m.data)]
    ELSE m

\* the Model as Model::with_data makes it: dirty and without widths
new_model(data) ==
    [data |-> data, cursor |-> Cell(0, 0),
     cached_content_widths |-> <<>>, dirty |-> TRUE]

\* (variant: the Model is returned as it was made, without the recache)
with_data_lazy(data) == new_model(data)
\* Model::with_data: calls recache on the Model it made
with_data(data) == recache(new_model(data))

\* what a closure returns: (), None, or an element
Unit == [kind |-> "unit"]
NoElem == [kind |-> "none"]
Elem(e) == [kind |-> "some", val |-> e]

\* the closures handed to mutate_columns and mutate_records: |v| v.push(e),
\* |v| v.pop(), |v| v.remove(0) on a Vec that is not empty, |_| ()
Closures(vec, S, n) ==
    {[kind |-> "push", arg |-> e] : e \in IF Len(vec) < n THEN S ELSE {}}
    \cup {[kind |-> "pop"], [kind |-> "nothing"]}
    \cup (IF vec = <<>> THEN {} ELSE {[kind |-> "remove"]})

\* func(&mut vec): the Vec afterwards and the result
Apply(func, vec) ==
    CASE func.kind = "push" -> [vec |-> Append(vec, func.arg), result |-> Unit]
      [] func.kind = "pop" ->
             IF vec = <<>> THEN [vec |-> vec, result |-> NoElem]
             ELSE [vec |-> SubSeq(vec, 1, Len(vec) - 1), result |-> Elem(vec[Len(vec)])]
      [] func.kind = "remove" -> [vec |-> Tail(vec), result |-> Elem(Head(vec))]
      [] OTHER -> [vec |-> vec, result |-> Unit]

\* (variant: the closure runs and the flag stays as it was)
mutate_columns_keeps_flag(m, func) ==
    LET applied == Apply(func, m.data.columns)
    IN [model |-> [m EXCEPT !.data.columns = applied.vec],
        result |-> applied.result]
\* Model::mutate_columns: the Model afterwards and the result
mutate_columns(m, func) ==
    LET applied == Apply(func, m.data.columns)
    IN [model |-> [m EXCEPT !.data.columns = applied.vec, !.dirty = TRUE],
        result |-> applied.result]

\* (variant: the flag is set only when the closure changed the records)
mutate_records_if_changed(m, func) ==
    LET applied == Apply(func, m.data.records)
    IN [model |-> [m EXCEPT !.data.records = applied.vec,
                            !.dirty = m.dirty \/ applied.vec # m.data.records],
        result |-> applied.result]
\* Model::mutate_records: the Model afterwards and the result
mutate_records(m, func) ==
    LET applied == Apply(func, m.data.records)
    IN [model |-> [m EXCEPT !.data.records = applied.vec, !.dirty = TRUE],
        result |-> applied.result]

\* (variant: the sort marks the cache as stale)
model_sort_marks_dirty(m, index, is_descending) ==
    [m EXCEPT !.data = sort_by_column_index(m.data, index, is_descending),
              !.dirty = TRUE]
\* the sum of the widths
RECURSIVE SumWidths(_)
SumWidths(widths) ==
    IF widths = <<>> THEN 0 ELSE Head(widths) + SumWidths(Tail(widths))

\* (variant: a separator is counted for every column)
total_display_width_sep_each(m, column_sep_width) ==
    SumWidths(m.cached_content_widths)
        + Len(m.cached_content_widths) * column_sep_width
\* Model::total_display_width
total_display_width(m, column_sep_width) ==
    LET total_sep_width ==
            saturating_sub(Len(m.cached_content_widths), 1) * column_sep_width
    IN SumWidths(m.cached_content_widths) + total_sep_width

\* IterWidthsOffsets::new
IterWidthsOffsetsNew(widths, column_sep_width) ==
    [width_iter |-> widths, curr_offset |-> 0,
     column_sep_width |-> column_sep_width, is_first |-> TRUE]

\* (variant: the separator is added in front of the first column too)
IterWidthsOffsetsNextSepFirst(it) ==
    IF it.width_iter = <<>> THEN [some |-> FALSE, width |-> 0, offset |-> 0, iter |-> it]
    ELSE LET width == Head(it.width_iter)
             curr_offset == it.curr_offset + it.column_sep_width
         IN [some |-> TRUE, width |-> width, offset |-> curr_offset,
             iter |-> [it EXCEPT !.width_iter = Tail(it.width_iter),
                                 !.is_first = FALSE,
                                 !.curr_offset = curr_offset + width]]
\* <IterWidthsOffsets as Iterator>::next: the pair it yields, if any, and the
\* iterator afterwards
IterWidthsOffsetsNext(it) ==
    IF it.width_iter = <<>> THEN [some |-> FALSE, width |-> 0, offset |-> 0, iter |-> it]
    ELSE LET width == Head(it.width_iter)
             curr_offset == IF it.is_first THEN it.curr_offset
                            ELSE it.curr_offset + it.column_sep_width
         IN [some |-> TRUE, width |-> width, offset |-> curr_offset,
             iter |-> [it EXCEPT !.width_iter = Tail(it.width_iter),
                                 !.is_first = FALSE,
                                 !.curr_offset = curr_offset + width]]

\* Iterator::nth: skips n items and yields the next
RECURSIVE Nth(_, _)
Nth(it, n) ==
    LET r == IterWidthsOffsetsNext(it)
    IN IF ~r.some \/ n = 0 THEN r ELSE Nth(r.iter, n - 1)

\* Model::column_offset: the offset of the pair of column index, if there is
\* one
column_offset(m, index, column_sep_width) ==
    LET r == Nth(IterWidthsOffsetsNew(m.cached_content_widths, column_sep_width), index)
    IN IF r.some THEN [some |-> TRUE, offset |-> r.offset]
       ELSE [some |-> FALSE, offset |-> 0]

\* Model::sort_by_column_index: "No recaching should be needed with sorting."
model_sort_by_column_index(m, index, is_descending) ==
    [m EXCEPT !.data = sort_by_column_index(m.data, index, is_descending)]

\* Model::move_cursor: Cursor::shift within the numbers of columns and records
move_cursor(m, dir, n) ==
    [m EXCEPT !.cursor = shift(m.cursor, dir, n,
                               Len(m.data.columns), Len(m.data.records))]

\* most columns and most records of the Data of the Model
MaxModelColumns == 1
MaxModelRecords == 2

\* an Auto column of the metadata key and a Fixed column of the file name
ModelColumns == {NewColumn(Meta("ARTIST"), <<"a">>, Auto),
                 NewColumn(Info("FileName"), <<>>, Fixed(2))}
\* a record with a wide ARTIST and one without the key
ModelRecords == {NewRecord([k \in MetaKeys |-> <<"JP">>], << <<"a">> >>),
                 NewRecord([k \in {} |-> <<>>], << <<"JP">>, <<"a">> >>)}

SeqsUpTo(S, n) == UNION {[1..k -> S] : k \in 0..n}

\* the deltas of move_cursor_*
MoveDeltas == {0, 1, UsizeMax}

\* what a call is known by afterwards
Called(recomputed, ret) == [recomputed |-> recomputed, ret |-> ret]

ModelIdle ==
    /\ model = with_data([columns |-> <<>>, records |-> <<>>])
    /\ model_op = "idle"
    /\ model_call = Called(FALSE, Unit)

\* the largest width a sizing names, and most columns of a table
MaxSizing == 2
MaxLayoutColumns == 2

\* the width of COLUMN_SEP
COLUMN_SEP_WIDTH == 3
\* the separator widths total_display_width and column_offset are asked with
SepWidths == {0, 1, COLUMN_SEP_WIDTH}

\* the parsed sizings
SizingReprs ==
    {ReprAuto}
    \cup {ReprFixed(w) : w \in 0..MaxSizing}
    \cup {ReprLower(w) : w \in 0..MaxSizing}
    \cup {ReprUpper(w) : w \in 0..MaxSizing}
    \cup {ReprBound(a, b) : a, b \in 0..MaxSizing}

\* the parsed sizings of the columns of a table: any sizing at one place, and
\* Auto or the largest Fixed at the others
ReprLists ==
    {<<>>} \cup
    UNION {{[i \in 1..n |-> IF i = p THEN probe ELSE rest[i]] :
               probe \in SizingReprs, p \in 1..n,
               rest \in [1..n -> {ReprAuto, ReprFixed(MaxSizing)}]} :
           n \in 1..MaxLayoutColumns}

\* a column of the metadata key with the sizing
LayoutColumn(sizing) == NewColumn(Meta("ARTIST"), <<"a">>, sizing)

NoQuery == [column_sep_width |-> 0, index |-> 0, total |-> 0,
            offset |-> [some |-> FALSE, offset |-> 0]]

LayoutIdle ==
    layout = [stage |-> "idle", reprs |-> <<>>, records |-> <<>>,
              model |-> with_data([columns |-> <<>>, records |-> <<>>]),
              query |-> NoQuery]

----------------------------------------------------------------------------
(* TagRecordView (src/src/views/tag_record.rs): the callbacks of the view    *)
(* and of the canvas in its scroll view, as the steps they take with the     *)
(* mutex of the shared Model.                                                *)

\* the steps of a callback
Lock(line) == [op |-> "lock", line |-> line]
Work(line) == [op |-> "work", line |-> line]
Match(line) == [op |-> "match", line |-> line]
Unlock(line) == [op |-> "unlock", line |-> line]
Nested(line) == [op |-> "nested", line |-> line]

\* (variant: the guard lives to the end of draw, without the sub block)
DrawStepsWithoutBlock == <<Lock(269), Work(286), Nested(294), Unlock(295)>>
\* TagRecordView::draw: "This sub block is needed to avoid a deadlock."
DrawSteps == <<Lock(269), Work(286), Unlock(291), Nested(294)>>

\* TagRecordView::layout
LayoutSteps == <<Lock(299), Work(300), Unlock(301), Nested(304)>>

\* TagRecordView::required_size
RequiredSizeSteps == <<Nested(310)>>

\* TagRecordView::on_event: the match returns Ignored for an event it does
\* not know
OnEventSteps == <<Lock(315), Match(318), Unlock(349), Nested(351)>>

\* the closures of the canvas: with_draw, with_required_size,
\* with_important_area
CanvasDrawSteps == <<Lock(63), Work(91), Unlock(93)>>
CanvasRequiredSizeSteps == <<Lock(96), Work(97), Unlock(100)>>
CanvasImportantAreaSteps == <<Lock(102), Work(111), Unlock(118)>>

ViewCallbacks == {"draw", "layout", "required_size", "on_event"}
CanvasCallbacks == {"canvas_draw", "canvas_required_size", "canvas_important_area"}

Steps(fn) ==
    CASE fn = "draw" -> DrawSteps
      [] fn = "layout" -> LayoutSteps
      [] fn = "required_size" -> RequiredSizeSteps
      [] fn = "on_event" -> OnEventSteps
      [] fn = "canvas_draw" -> CanvasDrawSteps
      [] fn = "canvas_required_size" -> CanvasRequiredSizeSteps
      [] fn = "canvas_important_area" -> CanvasImportantAreaSteps

\* the events on_event knows, and one it does not
Events == {"AltChar d", "AltChar a", "Up", "Down", "Left", "Right",
           "PageUp", "PageDown", "other"}

\* most canvas callbacks the scroll view makes in one call
MaxNestedCalls == 2

\* EventResult
Consumed == "Consumed"
Ignored == "Ignored"

\* the match of TagRecordView::on_event on the locked Model: the Model
\* afterwards and the EventResult
on_event(m, event) ==
    CASE event = "AltChar d" ->
             [model |-> IF column_index(m.cursor).some
                        THEN model_sort_by_column_index(m, column_index(m.cursor).x, TRUE)
                        ELSE m,
              result |-> Consumed]
      [] event = "AltChar a" ->
             [model |-> IF column_index(m.cursor).some
                        THEN model_sort_by_column_index(m, column_index(m.cursor).x, FALSE)
                        ELSE m,
              result |-> Consumed]
      [] event = "Up" -> [model |-> move_cursor(m, "U", 1), result |-> Consumed]
      [] event = "Down" -> [model |-> move_cursor(m, "D", 1), result |-> Consumed]
      [] event = "Left" -> [model |-> move_cursor(m, "L", 1), result |-> Consumed]
      [] event = "Right" -> [model |-> move_cursor(m, "R", 1), result |-> Consumed]
      [] event = "PageUp" -> [model |-> move_cursor(m, "U", 10), result |-> Consumed]
      [] event = "PageDown" -> [model |-> move_cursor(m, "D", 10), result |-> Consumed]
      [] OTHER -> [model |-> m, result |-> Ignored]

\* what on_event was handed and what it did
Handled(event, result, reordered) ==
    [kind |-> "event", event |-> event, result |-> result, reordered |-> reordered]

\* a callback that was entered: where it is, whether it holds the guard and
\* whether it is inside its call into the scroll view; the view remembers
\* the callback that returned to the runtime last
Frame(fn) == [fn |-> fn, pc |-> 1, guard |-> FALSE, inside |-> FALSE]

ViewIdle ==
    view = [stack |-> <<>>, locked |-> FALSE, deadlocked |-> FALSE,
            event |-> "other", nested_left |-> 0, returned |-> "none"]

----------------------------------------------------------------------------
(* PrintAtoms (src/src/model.rs): the strings of a row, each fitted to the  *)
(* width of its column, with the column separator between them.             *)

\* "⋯" and " │ ": told apart from the characters of the strings
ELLIPSIS_STR == <<"el">>
COLUMN_SEP == <<"sp", "bar", "sp">>
\* the display width of ELLIPSIS_STR
ELLIPSIS_STR_WIDTH == 1

\* PrintAtoms::new: the zip of strings and widths is read by its index
PrintAtomsNew == [index |-> 0, curr_offset |-> 0, is_first |-> TRUE, state |-> "Value"]

\* Option<(&str, usize)>
AtomNone == [some |-> FALSE, str |-> <<>>, offset |-> 0]
AtomSome(str, offset) == [some |-> TRUE, str |-> str, offset |-> offset]

\* self.atoms.peek()?: next() goes on only while a pair is left in the zip
AtomsLeft(it, atoms) == it.index < Len(atoms)

\* PrintAtomsState::Value arm
PrintValue(it, atoms) ==
    LET original_str == atoms[it.index + 1].str
        target_width == atoms[it.index + 1].width
        original_width == StrWidth(original_str)
        elided_width == saturating_sub(target_width, ELLIPSIS_STR_WIDTH)
        trim_output == trim_display_str(original_str, elided_width)
        display_str == IF original_width > target_width
                       THEN trim_output.display_str ELSE original_str
        needs_ellipsis == IF original_width > target_width
                          THEN IF target_width < ELLIPSIS_STR_WIDTH THEN FALSE
                               ELSE trim_output.trim_status.trimmed
                          ELSE FALSE
    IN [item |-> AtomSome(display_str, it.curr_offset),
        what |-> "value",
        it |-> IF needs_ellipsis
               THEN [it EXCEPT !.index = @ + 1,
                               !.state = "Ellipsis",
                               !.curr_offset =
                                   @ + saturating_sub(target_width, ELLIPSIS_STR_WIDTH)]
               ELSE [it EXCEPT !.index = @ + 1,
                               !.state = "Delimiter",
                               !.curr_offset = @ + target_width]]

\* PrintAtomsState::Ellipsis arm
PrintEllipsisAtom(it) ==
    [item |-> AtomSome(ELLIPSIS_STR, it.curr_offset),
     what |-> "ellipsis",
     it |-> [it EXCEPT !.state = "Delimiter",
                       !.curr_offset = @ + ELLIPSIS_STR_WIDTH]]

\* PrintAtomsState::Delimiter arm
PrintDelimiter(it) ==
    [item |-> AtomSome(COLUMN_SEP, it.curr_offset),
     what |-> "delimiter",
     it |-> [it EXCEPT !.state = "Value",
                       !.curr_offset = @ + COLUMN_SEP_WIDTH]]

\* PrintAtoms::next
PrintAtomsNext(it, atoms) ==
    IF ~AtomsLeft(it, atoms) THEN [item |-> AtomNone, what |-> "none", it |-> it]
    ELSE CASE it.state = "Value" -> PrintValue(it, atoms)
           [] it.state = "Ellipsis" -> PrintEllipsisAtom(it)
           [] it.state = "Delimiter" -> PrintDelimiter(it)

\* most pairs of a row, and the largest width of a column
MaxAtoms == 2
MaxAtomWidth == 3

\* "", a narrow string, a wide one, and ones of both kinds of character
AtomStrings == {<<>>, <<"a", "a">>, <<"JP", "JP">>, <<"a", "JP", "a">>, <<"JP", "cm", "a">>}

\* the pairs the zip of the strings and the widths gives
AtomPairs == [str : AtomStrings, width : 0..MaxAtomWidth]

PrintIdle ==
    pa = [atoms |-> <<>>, it |-> PrintAtomsNew, item |-> AtomNone, called |-> FALSE,
          yield |-> <<>>]

----------------------------------------------------------------------------
(* Specification of the text fitter: one call on any arguments. *)

MultiIdle ==
    /\ mf_args = [values |-> <<>>, target_width |-> 0,
                  separator |-> <<>>, ellipsis |-> <<>>]
    /\ mf = MultiFigmentsNew(<<>>, 0, <<>>, <<>>)
    /\ mf_item = ItemStart
    /\ mf_yield = <<>>

TrimInit ==
    /\ trim_args \in [original_str : StrsUpTo(MaxLen),
                      target_width : 0..MaxWidth,
                      ellipsis_width : 0..MaxEllipsis]
    /\ trim_ret = NotReturned
    /\ MultiIdle
    /\ CursorIdle
    /\ SortIdle
    /\ ModelIdle
    /\ LayoutIdle
    /\ ViewIdle
    /\ PrintIdle

TrimCall ==
    /\ ~trim_ret.returned
    /\ trim_ret' = trim_display_str_elided(trim_args.original_str,
                                           trim_args.target_width,
                                           trim_args.ellipsis_width)
    /\ UNCHANGED <<trim_args, multi_vars, shift_vars, sort_vars, model_vars, layout_vars, view_vars, print_vars>>

TrimNext == TrimCall

SpecTrim == TrimInit /\ [][TrimNext]_vars

----------------------------------------------------------------------------
(* Specification of MultiFigments: construction, then calls of next(). *)

TrimIdle ==
    /\ trim_args = [original_str |-> <<>>, target_width |-> 0, ellipsis_width |-> 0]
    /\ trim_ret = NotReturned

MultiInit ==
    /\ mf_args \in [values : UNION {ValueLists(n, MaxValueChars) : n \in 0..MaxValues},
                     target_width : 0..MaxWidth,
                     separator : Separators,
                     ellipsis : Ellipses]
    /\ mf = MultiFigmentsNew(mf_args.values, mf_args.target_width,
                             mf_args.separator, mf_args.ellipsis)
    /\ mf_item = ItemStart
    /\ mf_yield = <<>>
    /\ TrimIdle
    /\ CursorIdle
    /\ SortIdle
    /\ ModelIdle
    /\ LayoutIdle
    /\ ViewIdle
    /\ PrintIdle

\* One call of MultiFigments::next whose match arm is `arm`.
Returns(arm) ==
    /\ mf_item.kind # "Panic"
    /\ mf' = arm.mf
    /\ mf_item' = arm.item
    /\ mf_yield' = IF arm.item.kind = "Some"
                   THEN Append(mf_yield, [offset |-> arm.item.offset,
                                          fragment |-> arm.item.fragment,
                                          what |-> arm.what])
                   ELSE mf_yield
    /\ UNCHANGED <<mf_args, trim_vars, shift_vars, sort_vars, model_vars, layout_vars, view_vars, print_vars>>

NextHead == mf.state.kind = "Head" /\ Returns(NextInHead(mf, mf_args.values, mf_args.separator))
NextTail == mf.state.kind = "Tail" /\ Returns(NextInTail(mf, mf_args.values, mf_args.separator))
NextEllipsis == mf.state.kind = "Ellipsis" /\ Returns(NextInEllipsis(mf))
NextDone == mf.state.kind = "Done" /\ Returns(NextInDone(mf))

MultiNext == NextHead \/ NextTail \/ NextEllipsis \/ NextDone

SpecMulti == MultiInit /\ [][MultiNext]_vars

----------------------------------------------------------------------------
(* Specification of the cursor: one call of shift on any cursor, direction, *)
(* delta and bounds.                                                        *)

CursorInit ==
    /\ shift_args \in [cursor : Cursors, dir : CursorDirs, n : Usizes,
                        bound_x : Usizes, bound_y : Usizes]
    /\ shift_ret = [done |-> FALSE, cursor |-> shift_args.cursor]
    /\ TrimIdle
    /\ MultiIdle
    /\ SortIdle
    /\ ModelIdle
    /\ LayoutIdle
    /\ ViewIdle
    /\ PrintIdle

CursorShift ==
    /\ ~shift_ret.done
    /\ shift_ret' = [done |-> TRUE,
                     cursor |-> shift(shift_args.cursor, shift_args.dir, shift_args.n,
                                      shift_args.bound_x, shift_args.bound_y)]
    /\ UNCHANGED <<shift_args, trim_vars, multi_vars, sort_vars, model_vars, layout_vars, view_vars, print_vars>>

CursorNext == CursorShift

SpecCursor == CursorInit /\ [][CursorNext]_vars

----------------------------------------------------------------------------
(* Specification of the sort: one call of sort_by_column_index on any       *)
(* records, column index and direction.                                     *)

SortInit ==
    /\ sort_args \in [data : [columns : {SortColumns}, records : RecordsUpTo(MaxRecords)],
                       column_index : 0..Len(SortColumns),
                       is_descending : BOOLEAN]
    /\ sort_ret = [done |-> FALSE, data |-> sort_args.data]
    /\ TrimIdle
    /\ MultiIdle
    /\ CursorIdle
    /\ ModelIdle
    /\ LayoutIdle
    /\ ViewIdle
    /\ PrintIdle

SortCall ==
    /\ ~sort_ret.done
    /\ sort_ret' = [done |-> TRUE,
                    data |-> sort_by_column_index(sort_args.data, sort_args.column_index,
                                                  sort_args.is_descending)]
    /\ UNCHANGED <<sort_args, trim_vars, multi_vars, shift_vars, model_vars, layout_vars, view_vars, print_vars>>

SortNext == SortCall

SpecSort == SortInit /\ [][SortNext]_vars

----------------------------------------------------------------------------
(* Specification of the Model: made with any Data, then any sequence of     *)
(* calls of its methods.                                                    *)

ModelInit ==
    /\ \E columns \in SeqsUpTo(ModelColumns, MaxModelColumns),
          records \in SeqsUpTo(ModelRecords, MaxModelRecords) :
           /\ model = with_data([columns |-> columns, records |-> records])
           /\ model_call = Called(Recomputes(new_model([columns |-> columns,
                                                        records |-> records])),
                                  Unit)
    /\ model_op = "with_data"
    /\ TrimIdle
    /\ MultiIdle
    /\ CursorIdle
    /\ SortIdle
    /\ LayoutIdle
    /\ ViewIdle
    /\ PrintIdle

Others == <<trim_vars, multi_vars, shift_vars, sort_vars, layout_vars, view_vars, print_vars>>

MutateColumns ==
    /\ \E func \in Closures(model.data.columns, ModelColumns, MaxModelColumns) :
           /\ model' = mutate_columns(model, func).model
           /\ model_call' = Called(FALSE, mutate_columns(model, func).result)
    /\ model_op' = "mutate_columns"
    /\ UNCHANGED Others

MutateRecords ==
    /\ \E func \in Closures(model.data.records, ModelRecords, MaxModelRecords) :
           /\ model' = mutate_records(model, func).model
           /\ model_call' = Called(FALSE, mutate_records(model, func).result)
    /\ model_op' = "mutate_records"
    /\ UNCHANGED Others

SortByColumnIndex ==
    /\ \E index \in 0..MaxModelColumns, is_descending \in BOOLEAN :
           model' = model_sort_by_column_index(model, index, is_descending)
    /\ model_op' = "sort_by_column_index"
    /\ model_call' = Called(FALSE, Unit)
    /\ UNCHANGED Others

MoveCursor ==
    /\ \E dir \in CursorDirs, n \in MoveDeltas :
           model' = move_cursor(model, dir, n)
    /\ model_op' = "move_cursor"
    /\ model_call' = Called(FALSE, Unit)
    /\ UNCHANGED Others

Recache ==
    /\ model' = recache(model)
    /\ model_op' = "recache"
    /\ model_call' = Called(Recomputes(model), Unit)
    /\ UNCHANGED Others

ModelNext ==
    \/ MutateColumns
    \/ MutateRecords
    \/ SortByColumnIndex
    \/ MoveCursor
    \/ Recache

SpecModel == ModelInit /\ [][ModelNext]_vars

----------------------------------------------------------------------------
(* Specification of the layout: the parsed sizings of a table are           *)
(* converted, the Model is made of the columns and the records, and the     *)
(* total width and the offset of a column are asked for.                    *)

LayoutInit ==
    /\ \E reprs \in ReprLists, records \in SeqsUpTo(ModelRecords, MaxModelRecords) :
           layout = [stage |-> "parsed", reprs |-> reprs, records |-> records,
                     model |-> with_data([columns |-> <<>>, records |-> <<>>]),
                     query |-> NoQuery]
    /\ TrimIdle
    /\ MultiIdle
    /\ CursorIdle
    /\ SortIdle
    /\ ModelIdle
    /\ ViewIdle
    /\ PrintIdle

Rest == <<trim_vars, multi_vars, shift_vars, sort_vars, model_vars, view_vars, print_vars>>

\* the sizings are converted and the Model is made of the columns
LayoutWithData ==
    /\ layout.stage = "parsed"
    /\ layout' = [layout EXCEPT
           !.stage = "made",
           !.model = with_data(
               [columns |-> [i \in 1..Len(layout.reprs) |->
                                LayoutColumn(SizingFrom(layout.reprs[i]))],
                records |-> layout.records])]
    /\ UNCHANGED Rest

\* Model::total_display_width and Model::column_offset are called
LayoutQuery ==
    /\ layout.stage = "made"
    /\ \E column_sep_width \in SepWidths, index \in 0..MaxLayoutColumns :
           layout' = [layout EXCEPT
               !.stage = "asked",
               !.query = [column_sep_width |-> column_sep_width,
                          index |-> index,
                          total |-> total_display_width(layout.model, column_sep_width),
                          offset |-> column_offset(layout.model, index,
                                                   column_sep_width)]]
    /\ UNCHANGED Rest

LayoutNext ==
    \/ LayoutWithData
    \/ LayoutQuery

SpecLayout == LayoutInit /\ [][LayoutNext]_vars

----------------------------------------------------------------------------
(* Specification of the view: the UI runtime calls the callbacks of         *)
(* TagRecordView one at a time on one thread; a call into the scroll view   *)
(* makes it call the closures of the canvas.                                *)

ViewInit ==
    /\ ViewIdle
    /\ PrintIdle
    /\ TrimIdle
    /\ MultiIdle
    /\ CursorIdle
    /\ SortIdle
    /\ ModelIdle
    /\ LayoutIdle

NotView == <<trim_vars, multi_vars, shift_vars, sort_vars, model_vars, layout_vars,
            print_vars>>

\* the callback that is running, and the step it is at
Top == view.stack[Len(view.stack)]
AtEnd == Top.pc > Len(Steps(Top.fn))
Step == Steps(Top.fn)[Top.pc]
Running == view.stack # <<>> /\ ~view.deadlocked

\* the stack with the running callback changed
WithTop(frame) == [view.stack EXCEPT ![Len(view.stack)] = frame]
Popped == SubSeq(view.stack, 1, Len(view.stack) - 1)

\* the runtime calls a callback of the view
ViewCall ==
    /\ view.stack = <<>>
    /\ \E fn \in ViewCallbacks, event \in Events :
           view' = [view EXCEPT !.stack = <<Frame(fn)>>,
                                !.event = IF fn = "on_event" THEN event ELSE "other"]
    /\ UNCHANGED NotView

\* shared_model.lock(): on a mutex that is held the thread waits for itself
ViewLock ==
    /\ Running /\ ~AtEnd /\ Step.op = "lock"
    /\ view' = IF view.locked
               THEN [view EXCEPT !.deadlocked = TRUE]
               ELSE [view EXCEPT !.locked = TRUE,
                                 !.stack = WithTop([Top EXCEPT !.pc = @ + 1,
                                                               !.guard = TRUE])]
    /\ UNCHANGED NotView

\* the work under the guard
ViewWork ==
    /\ Running /\ ~AtEnd /\ Step.op = "work"
    /\ view' = [view EXCEPT !.stack = WithTop([Top EXCEPT !.pc = @ + 1])]
    /\ UNCHANGED NotView

\* the match of on_event: an event it does not know returns Ignored from
\* inside the block, which drops the guard
ViewMatch ==
    /\ Running /\ ~AtEnd /\ Step.op = "match"
    /\ view' = IF view.event = "other"
               THEN [view EXCEPT !.stack = Popped,
                                 !.locked = IF Top.guard THEN FALSE ELSE @,
                                 !.returned = Top.fn]
               ELSE [view EXCEPT !.stack = WithTop([Top EXCEPT !.pc = @ + 1])]
    /\ UNCHANGED NotView

\* the end of the block, or of the closure, that holds the guard
ViewUnlock ==
    /\ Running /\ ~AtEnd /\ Step.op = "unlock"
    /\ view' = [view EXCEPT !.locked = FALSE,
                            !.stack = WithTop([Top EXCEPT !.pc = @ + 1,
                                                          !.guard = FALSE])]
    /\ UNCHANGED NotView

\* the call into the scroll view begins
ViewNested ==
    /\ Running /\ ~AtEnd /\ Step.op = "nested"
    /\ ~Top.inside
    /\ view' = [view EXCEPT !.stack = WithTop([Top EXCEPT !.inside = TRUE]),
                            !.nested_left = MaxNestedCalls]
    /\ UNCHANGED NotView

\* the scroll view calls a closure of the canvas
ViewCanvasCall ==
    /\ Running /\ ~AtEnd /\ Step.op = "nested"
    /\ Top.inside
    /\ view.nested_left > 0
    /\ \E fn \in CanvasCallbacks :
           view' = [view EXCEPT !.stack = Append(@, Frame(fn)),
                                !.nested_left = @ - 1]
    /\ UNCHANGED NotView

\* the scroll view returns to the callback of the view
ViewNestedReturn ==
    /\ Running /\ ~AtEnd /\ Step.op = "nested"
    /\ Top.inside
    /\ view' = [view EXCEPT !.stack = WithTop([Top EXCEPT !.pc = @ + 1,
                                                          !.inside = FALSE]),
                            !.nested_left = 0]
    /\ UNCHANGED NotView

\* a callback returns; a guard that is still alive is dropped
ViewReturn ==
    /\ Running /\ AtEnd
    /\ view' = [view EXCEPT !.stack = Popped,
                            !.locked = IF Top.guard THEN FALSE ELSE @,
                            !.returned = IF Len(view.stack) = 1 THEN Top.fn ELSE @]
    /\ UNCHANGED NotView

ViewNext ==
    \/ ViewCall
    \/ ViewLock
    \/ ViewWork
    \/ ViewMatch
    \/ ViewUnlock
    \/ ViewNested
    \/ ViewCanvasCall
    \/ ViewNestedReturn
    \/ ViewReturn

SpecView == ViewInit /\ [][ViewNext]_vars

----------------------------------------------------------------------------
(* Specification of PrintAtoms: made with any strings and widths, then      *)
(* next() is called until it has returned None.                             *)

PrintInit ==
    /\ \E atoms \in SeqsUpTo(AtomPairs, MaxAtoms) :
           pa = [atoms |-> atoms, it |-> PrintAtomsNew, item |-> AtomNone,
                 called |-> FALSE, yield |-> <<>>]
    /\ TrimIdle
    /\ MultiIdle
    /\ CursorIdle
    /\ SortIdle
    /\ ModelIdle
    /\ LayoutIdle
    /\ ViewIdle

\* a call of PrintAtoms::next; the iterator is fused, so the calls stop with
\* the first None
PrintAtomsCall ==
    /\ ~pa.called \/ pa.item.some
    /\ LET r == PrintAtomsNext(pa.it, pa.atoms)
       IN pa' = [pa EXCEPT
                   !.it = r.it,
                   !.item = r.item,
                   !.called = TRUE,
                   !.yield = IF r.item.some
                             THEN Append(@, [str |-> r.item.str,
                                             offset |-> r.item.offset,
                                             what |-> r.what,
                                             pair |-> pa.it.index
                                                      + (IF r.what = "value" THEN 1 ELSE 0)])
                             ELSE @]
    /\ UNCHANGED <<trim_vars, multi_vars, shift_vars, sort_vars, model_vars,
                   layout_vars, view_vars>>

PrintNext == PrintAtomsCall

SpecPrint == PrintInit /\ [][PrintNext]_vars

----------------------------------------------------------------------------
(* Specification of the events: the view is made with the Model of any      *)
(* Data, and on_event is handed any sequence of events.                     *)

EventsInit ==
    /\ \E k \in 0..Len(SortColumns),
          records \in SeqsUpTo(ModelRecords, MaxModelRecords) :
           model = with_data([columns |-> SubSeq(SortColumns, 1, k),
                              records |-> records])
    /\ model_op = "with_data"
    /\ model_call = Called(TRUE, Unit)
    /\ TrimIdle
    /\ MultiIdle
    /\ CursorIdle
    /\ SortIdle
    /\ LayoutIdle
    /\ ViewIdle
    /\ PrintIdle

\* TagRecordView::on_event
OnEvent ==
    /\ \E event \in Events :
           /\ model' = on_event(model, event).model
           /\ model_call' = Called(FALSE,
                                   Handled(event, on_event(model, event).result,
                                           on_event(model, event).model.data.records
                                               # model.data.records))
    /\ model_op' = "on_event"
    /\ UNCHANGED Others

EventsNext == OnEvent

SpecEvents == EventsInit /\ [][EventsNext]_vars

----------------------------------------------------------------------------
(* Properties of trim_display_str_elided, checked under SpecTrim. *)

Prefix(s, k) == SubSeq(s, 1, k)

\* the width left to the text once the ellipsis has its place: target_width
\* minus the ellipsis width, an ellipsis wider than the target counting 0
TextBudget == IF trim_args.ellipsis_width <= trim_args.target_width
              THEN trim_args.target_width - trim_args.ellipsis_width
              ELSE trim_args.target_width

IsTrimmed == trim_ret.returned /\ trim_ret.trim_status.trimmed

\* C1: the display string returned for any string, target width and ellipsis
\* width is at most target_width cells wide.
C1_WidthBound ==
    trim_ret.returned =>
        StrWidth(trim_ret.display_str) <= trim_args.target_width

\* a trimmed result whose kept prefix fills the target width exactly
C1_Witness ==
    /\ IsTrimmed
    /\ trim_args.target_width > 0
    /\ StrWidth(trim_ret.display_str) = trim_args.target_width

\* C2: when the target width is at least the display width of the string, the
\* string is returned unchanged, Untrimmed, with output_width and
\* full_real_width both its display width; and the result is Trimmed exactly
\* when the string is wider than the target.
C2_UntrimmedIffFits ==
    trim_ret.returned =>
        LET width == StrWidth(trim_args.original_str)
        IN /\ trim_args.target_width >= width =>
                  /\ trim_ret.display_str = trim_args.original_str
                  /\ trim_ret.trim_status = Untrimmed
                  /\ trim_ret.output_width = width
                  /\ trim_ret.full_real_width = width
           /\ trim_ret.trim_status.trimmed <=> width > trim_args.target_width

\* a non-empty string exactly as wide as the target came back untrimmed
C2_Witness ==
    /\ trim_ret.returned
    /\ ~trim_ret.trim_status.trimmed
    /\ trim_args.original_str # <<>>
    /\ StrWidth(trim_args.original_str) = trim_args.target_width
    /\ trim_args.ellipsis_width > 0

\* C3: a Trimmed result keeps the longest prefix of the string that is at most
\* TextBudget cells wide (every longer prefix is wider), and output_width is
\* the display width of that prefix.
C3_LongestPrefix ==
    IsTrimmed =>
        LET s == trim_args.original_str
            k == Len(trim_ret.display_str)
        IN /\ k <= Len(s)
           /\ trim_ret.display_str = Prefix(s, k)
           /\ StrWidth(trim_ret.display_str) <= TextBudget
           /\ \A j \in (k + 1)..Len(s) : StrWidth(Prefix(s, j)) > TextBudget
           /\ trim_ret.output_width = StrWidth(trim_ret.display_str)

\* the kept prefix ends with a zero-width character, and an ellipsis is printed
C3_Witness ==
    /\ IsTrimmed
    /\ trim_ret.display_str # <<>>
    /\ trim_ret.display_str[Len(trim_ret.display_str)] = "cm"
    /\ trim_ret.trim_status.emit_ellipsis

\* C4: for a Trimmed result the ellipsis offset, output_width + padding, is
\* TextBudget: it is not before the end of the kept prefix, and prefix, padding
\* and effective ellipsis fill target_width exactly.
C4_EllipsisOffset ==
    IsTrimmed =>
        /\ ellipsis_offset(trim_ret)
               = trim_ret.output_width + trim_ret.trim_status.padding
        /\ ellipsis_offset(trim_ret) = TextBudget
        /\ ellipsis_offset(trim_ret) >= StrWidth(trim_ret.display_str)
        /\ ellipsis_offset(trim_ret)
               + (trim_args.target_width - TextBudget) = trim_args.target_width

\* an ellipsis is printed right behind a non-empty kept prefix
C4_Witness ==
    /\ IsTrimmed
    /\ trim_ret.trim_status.emit_ellipsis
    /\ trim_ret.trim_status.padding = 0
    /\ trim_ret.output_width > 0
    /\ trim_args.ellipsis_width > 1

\* C5: every call returns without a failed subtraction, the padding is 0 or 1,
\* and it is 1 only when the first dropped character is two cells wide and
\* starts one cell before the elision boundary.
C5_PaddingTotal ==
    trim_ret.returned =>
        /\ ~trim_ret.failed
        /\ trim_ret.trim_status.padding \in {0, 1}
        /\ trim_ret.trim_status.padding = 1 =>
               LET s == trim_args.original_str
                   k == Len(trim_ret.display_str)
               IN /\ k < Len(s)
                  /\ CharWidth(s[k + 1]) = 2
                  /\ StrWidth(Prefix(s, k)) = TextBudget - 1

\* a wide character straddles the boundary behind a non-empty prefix
C5_Witness ==
    /\ IsTrimmed
    /\ ~trim_ret.failed
    /\ trim_ret.trim_status.padding = 1
    /\ trim_ret.display_str # <<>>
    /\ Len(trim_args.original_str) > Len(trim_ret.display_str) + 1

\* C6: with an ellipsis wider than the target the call returns what it
\* returns for ellipsis_width 0 (the prefix cut at the full target width, no
\* ellipsis); emit_ellipsis is true exactly for a Trimmed result with
\* 0 < ellipsis_width <= target_width.
C6_EllipsisDisabled ==
    trim_ret.returned =>
        /\ trim_args.ellipsis_width > trim_args.target_width =>
               /\ trim_ret = trim_display_str_elided(trim_args.original_str,
                                                     trim_args.target_width, 0)
               /\ ~trim_ret.trim_status.emit_ellipsis
               /\ trim_ret.trim_status.trimmed =>
                      \A j \in (Len(trim_ret.display_str) + 1)
                                   ..Len(trim_args.original_str) :
                          StrWidth(Prefix(trim_args.original_str, j))
                              > trim_args.target_width
        /\ trim_ret.trim_status.emit_ellipsis <=>
               /\ trim_ret.trim_status.trimmed
               /\ 0 < trim_args.ellipsis_width
               /\ trim_args.ellipsis_width <= trim_args.target_width

\* a string trimmed to a non-zero target narrower than the ellipsis
C6_Witness ==
    /\ IsTrimmed
    /\ trim_args.ellipsis_width > trim_args.target_width
    /\ trim_args.target_width > 0
    /\ trim_ret.display_str # <<>>

\* C7: Trimmed or Untrimmed, full_real_width is the display width of the whole
\* original string.
C7_FullRealWidth ==
    trim_ret.returned =>
        trim_ret.full_real_width = StrWidth(trim_args.original_str)

\* a trimmed result with a non-empty kept prefix and an ellipsis
C7_Witness ==
    /\ IsTrimmed
    /\ trim_ret.output_width > 0
    /\ trim_ret.full_real_width > trim_args.target_width + 1
    /\ trim_ret.trim_status.emit_ellipsis

----------------------------------------------------------------------------
(* Properties of MultiFigments, checked under SpecMulti. *)

\* v0, sep, v1, ..., v(n-1): the values joined by the separator
Interleaved ==
    LET n == Len(mf_args.values)
    IN IF n = 0 THEN <<>>
       ELSE [i \in 1..(2 * n - 1) |->
                IF i % 2 = 1 THEN mf_args.values[(i + 1) \div 2]
                ELSE mf_args.separator]

\* the summed display width of the first k strings of a sequence
RECURSIVE WidthOfFirst(_, _)
WidthOfFirst(strs, k) ==
    IF k = 0 THEN 0 ELSE WidthOfFirst(strs, k - 1) + StrWidth(strs[k])

CombinedWidth == WidthOfFirst(Interleaved, Len(Interleaved))

YieldedFragments == [k \in 1..Len(mf_yield) |-> mf_yield[k].fragment]
YieldedWidth == WidthOfFirst(YieldedFragments, Len(mf_yield))
CountOf(what) == Cardinality({k \in 1..Len(mf_yield) : mf_yield[k].what = what})

\* C8: when the joined values are no wider than the target, the fragments
\* yielded are exactly v0, sep, v1, ..., each whole and at the offset that is
\* the summed width of those before it, with no padding and no ellipsis.
C8_AllFit ==
    CombinedWidth <= mf_args.target_width =>
        /\ mf_item.kind # "Panic"
        /\ mf.state.kind \in {"Head", "Tail"}
        /\ Len(mf_yield) <= Len(Interleaved)
        /\ \A k \in 1..Len(mf_yield) :
               /\ mf_yield[k].fragment = Interleaved[k]
               /\ mf_yield[k].offset = WidthOfFirst(Interleaved, k - 1)
               /\ mf_yield[k].what = "figment"
        /\ mf_item.kind = "None" => Len(mf_yield) = Len(Interleaved)

\* everything was yielded although a value is wider than the target minus the
\* ellipsis: the lookahead found that the whole still fits
C8_Witness ==
    /\ CombinedWidth <= mf_args.target_width
    /\ mf_item.kind = "None"
    /\ mf.state.kind = "Tail"
    /\ Len(mf_yield) >= 3
    /\ mf.ellipsis_width > 0
    /\ \E i \in 1..Len(mf_args.values) :
           StrWidth(mf_args.values[i]) > mf_args.target_width - mf.ellipsis_width

\* C9: when the joined values are wider than the target and the ellipsis is
\* not, the iteration ends with the ellipsis at offset target_width minus the
\* ellipsis width, and the widths of all yielded fragments sum to target_width.
C9_EndsWithEllipsis ==
    (/\ CombinedWidth > mf_args.target_width
     /\ StrWidth(mf_args.ellipsis) <= mf_args.target_width) =>
        /\ mf_item.kind # "Panic"
        /\ mf.state.kind # "Tail"
        /\ mf_item.kind = "None" =>
               /\ mf.state.kind = "Done"
               /\ mf_yield # <<>>
               /\ LET last == mf_yield[Len(mf_yield)]
                  IN /\ last.what = "ellipsis"
                     /\ last.fragment = mf_args.ellipsis
                     /\ last.offset
                            = mf_args.target_width - StrWidth(mf_args.ellipsis)
               /\ YieldedWidth = mf_args.target_width

\* an overflowing list ended: whole figments, a cut one, padding, the ellipsis
C9_Witness ==
    /\ CombinedWidth > mf_args.target_width
    /\ StrWidth(mf_args.ellipsis) > 0
    /\ StrWidth(mf_args.ellipsis) <= mf_args.target_width
    /\ mf_item.kind = "None"
    /\ Len(mf_yield) >= 4
    /\ CountOf("padding") = 1
    /\ \E k \in 1..Len(mf_yield) :
           /\ mf_yield[k].what = "figment"
           /\ mf_yield[k].fragment # <<>>
           /\ mf_yield[k].fragment # Interleaved[k]

\* the most fragments n values can give
FigmentBound == IF Len(mf_args.values) = 0 THEN 0 ELSE 2 * Len(mf_args.values) - 1

\* C10: at most 2n-1 figments, one padding cell and one ellipsis are ever
\* yielded; once next() has returned None every later call returns None; and
\* Done is never left.
C10_FiniteAndFused ==
    /\ [](/\ CountOf("figment") <= FigmentBound
          /\ CountOf("padding") <= 1
          /\ CountOf("ellipsis") <= 1
          /\ Len(mf_yield) <= FigmentBound + 2)
    /\ [][mf_item.kind = "None" => mf_item'.kind = "None" /\ mf_yield' = mf_yield]_vars
    /\ [][mf.state.kind = "Done" => mf'.state.kind = "Done"]_vars

\* next() returned None after the most fragments two values can give
C10_Witness ==
    /\ mf_item.kind = "None"
    /\ Len(mf_args.values) = 2
    /\ CountOf("figment") = 3
    /\ CountOf("padding") = 1
    /\ CountOf("ellipsis") = 1

----------------------------------------------------------------------------
(* Properties of Cursor::shift. *)

\* the largest index of an axis of the given bound
MaxIdx(bound) == Max(bound, 1) - 1

\* the call of shift has returned, having had the given direction
Shifted(dir) == shift_ret.done /\ shift_args.dir = dir

\* C11: shift(Up, n) with n >= 1 takes Cell(x, y) to Cell(x', y - n) when
\* n <= y and to Column(x') when n > y, and Column(x) to Column(x'), where
\* x' = min(x, max(bound_x, 1) - 1) and the row is clamped to
\* max(bound_y, 1) - 1.
C11_ShiftUp ==
    (Shifted("U") /\ shift_args.n >= 1) =>
        LET c == shift_args.cursor
            xp == Min(c.x, MaxIdx(shift_args.bound_x))
        IN IF c.mode = "Cell" /\ shift_args.n <= c.y
           THEN shift_ret.cursor =
                    Cell(xp, Min(c.y - shift_args.n, MaxIdx(shift_args.bound_y)))
           ELSE shift_ret.cursor = Column(xp)

\* a cell of row 1 left the grid upwards by a delta as large as a usize gets,
\* from a column beyond the bound
C11_Witness ==
    /\ Shifted("U")
    /\ shift_args.cursor = Cell(3, 1)
    /\ shift_args.n = UsizeMax
    /\ shift_args.bound_x = 2
    /\ shift_ret.cursor = Column(1)

\* C12 as stated: shift(Down, n) takes Column(x), for every n, to
\* Cell(min(x, max(bound_x, 1) - 1), min(n - 1, max(bound_y, 1) - 1)), n - 1
\* saturating at 0.
C12_AnyDelta ==
    (Shifted("D") /\ shift_args.cursor.mode = "Column") =>
        shift_ret.cursor =
            Cell(Min(shift_args.cursor.x, MaxIdx(shift_args.bound_x)),
                 Min(saturating_sub(shift_args.n, 1), MaxIdx(shift_args.bound_y)))

\* C12: shift(Down, n) takes Column(x), for every n >= 1, to
\* Cell(min(x, max(bound_x, 1) - 1), min(n - 1, max(bound_y, 1) - 1)); with
\* n = 0 the cursor stays in the header, at Column(min(x, max(bound_x, 1) - 1)).
C12_EntersGrid ==
    (Shifted("D") /\ shift_args.cursor.mode = "Column") =>
        LET xp == Min(shift_args.cursor.x, MaxIdx(shift_args.bound_x))
        IN IF shift_args.n >= 1
           THEN shift_ret.cursor =
                    Cell(xp, Min(shift_args.n - 1, MaxIdx(shift_args.bound_y)))
           ELSE shift_ret.cursor = Column(xp)

\* the header cursor entered the grid two rows below the top
C12_Witness ==
    /\ Shifted("D")
    /\ shift_args.cursor = Column(2)
    /\ shift_args.n = 3
    /\ shift_args.bound_x = 3
    /\ shift_args.bound_y = 3
    /\ shift_ret.cursor = Cell(2, 2)

\* C13: shift(Left or Right, n) keeps the mode and, for a row within the
\* bounds, the row; the column becomes x - n saturating at 0, or x + n
\* saturating at the largest usize, then clamped to max(bound_x, 1) - 1.
C13_ShiftLeftRight ==
    (shift_ret.done /\ shift_args.dir \in {"L", "R"}) =>
        LET c == shift_args.cursor
            moved == IF shift_args.dir = "L"
                     THEN Max(c.x - shift_args.n, 0)
                     ELSE Min(c.x + shift_args.n, UsizeMax)
            xp == Min(moved, MaxIdx(shift_args.bound_x))
        IN /\ shift_ret.cursor.mode = c.mode
           /\ shift_ret.cursor.x = xp
           /\ (c.mode = "Cell" /\ c.y <= MaxIdx(shift_args.bound_y)) =>
                  shift_ret.cursor.y = c.y

\* a move to the left by more than the column, which stopped at column 0 and
\* kept row 2
C13_Witness ==
    /\ Shifted("L")
    /\ shift_args.cursor = Cell(1, 2)
    /\ shift_args.n = 3
    /\ shift_args.bound_x = 3
    /\ shift_args.bound_y = 3
    /\ shift_ret.cursor = Cell(0, 2)

\* C14: shift(Down, n) takes Cell(x, y) to Cell(x', min(y + n,
\* max(bound_y, 1) - 1)), the addition saturating at the largest usize, and
\* never leaves Cell mode.
C14_ShiftDownCell ==
    (Shifted("D") /\ shift_args.cursor.mode = "Cell") =>
        shift_ret.cursor =
            Cell(Min(shift_args.cursor.x, MaxIdx(shift_args.bound_x)),
                 Min(Min(shift_args.cursor.y + shift_args.n, UsizeMax),
                     MaxIdx(shift_args.bound_y)))

\* the sum of the row and the delta passes the largest usize and the cursor
\* lands on the last row
C14_Witness ==
    /\ Shifted("D")
    /\ shift_args.cursor = Cell(0, UsizeMax)
    /\ shift_args.n = UsizeMax
    /\ shift_args.bound_x = 1
    /\ shift_args.bound_y = UsizeMax
    /\ shift_ret.cursor = Cell(0, UsizeMax - 1)

\* the index is below the bound, or 0 where the bound is 0
WithinBound(idx, bound) == IF bound = 0 THEN idx = 0 ELSE idx <= bound - 1

\* C15: after every shift, from any cursor, in any direction, by any delta
\* including 0 and for any bounds, the column is at most bound_x - 1 and in
\* Cell mode the row is at most bound_y - 1, an index being 0 on an axis
\* whose bound is 0.
C15_ClampedAfterShift ==
    shift_ret.done =>
        /\ WithinBound(shift_ret.cursor.x, shift_args.bound_x)
        /\ shift_ret.cursor.mode = "Cell" =>
               WithinBound(shift_ret.cursor.y, shift_args.bound_y)

\* a cursor out of range on both axes is brought back by a shift of 0
C15_Witness ==
    /\ shift_ret.done
    /\ shift_args.n = 0
    /\ shift_args.cursor = Cell(UsizeMax, 3)
    /\ shift_args.bound_x = 2
    /\ shift_args.bound_y = 0
    /\ shift_ret.cursor = Cell(1, 0)

----------------------------------------------------------------------------
(* Properties of Data::sort_by_column_index. *)

\* a is a prefix of b, or a holds the lesser character at the first place
\* where the two differ
LexLeq(a, b) ==
    \E k \in 0..Min(Len(a), Len(b)) :
        /\ SubSeq(a, 1, k) = SubSeq(b, 1, k)
        /\ \/ k = Len(a)
           \/ k < Len(b) /\ CharOrd(a[k + 1]) < CharOrd(b[k + 1])

\* the call has returned, having had a valid column index and the given
\* direction
Sorted(is_descending) ==
    /\ sort_ret.done
    /\ sort_args.column_index < Len(sort_args.data.columns)
    /\ sort_args.is_descending = is_descending

\* the key of the column the call sorted by
SortKey == sort_args.data.columns[sort_args.column_index + 1].key

\* the values of the sorted column, record by record
ValuesOf(records) == [i \in 1..Len(records) |-> get(records[i], SortKey)]

\* C17: after an ascending sort on a valid column index every record without
\* a value precedes every record with one, and the present values are in
\* non-decreasing lexicographic order.
C17_AscendingOrder ==
    Sorted(FALSE) =>
        LET out == ValuesOf(sort_ret.data.records)
        IN \A i, j \in 1..Len(out) :
               i < j => /\ out[j].some \/ ~out[i].some
                        /\ (out[i].some /\ out[j].some) =>
                               LexLeq(out[i].val, out[j].val)

\* "JP", "aa" and a record without the key came out as nothing, "aa", "JP"
C17_Witness ==
    /\ Sorted(FALSE)
    /\ SortKey = Meta("ARTIST")
    /\ ValuesOf(sort_args.data.records) =
           <<OptSome(<<"JP">>), OptSome(<<"a", "a">>), OptNone>>
    /\ ValuesOf(sort_ret.data.records) =
           <<OptNone, OptSome(<<"a", "a">>), OptSome(<<"JP">>)>>

\* C18: after a descending sort on a valid column index the present values
\* are in non-increasing lexicographic order and every record without a value
\* comes after all of them.
C18_DescendingOrder ==
    Sorted(TRUE) =>
        LET out == ValuesOf(sort_ret.data.records)
        IN \A i, j \in 1..Len(out) :
               i < j => /\ out[i].some \/ ~out[j].some
                        /\ (out[i].some /\ out[j].some) =>
                               LexLeq(out[j].val, out[i].val)

\* a record without the key, "" and "a" came out as "a", "", nothing
C18_Witness ==
    /\ Sorted(TRUE)
    /\ SortKey = Meta("ARTIST")
    /\ ValuesOf(sort_args.data.records) =
           <<OptNone, OptSome(<<>>), OptSome(<<"a">>)>>
    /\ ValuesOf(sort_ret.data.records) =
           <<OptSome(<<"a">>), OptSome(<<>>), OptNone>>

\* the records whose value of the sorted column is v, in their order
WithValue(records, v) ==
    LET HasValue(r) == get(r, SortKey) = v
    IN SelectSeq(records, HasValue)

\* C19: in both directions the records that compare equal on the column (the
\* same value, or none) keep the order they had before the sort.
C19_Stable ==
    (sort_ret.done /\ sort_args.column_index < Len(sort_args.data.columns)) =>
        \A v \in {OptNone} \cup {get(sort_args.data.records[i], SortKey) :
                                    i \in 1..Len(sort_args.data.records)} :
            WithValue(sort_ret.data.records, v) = WithValue(sort_args.data.records, v)

\* a descending sort by file name moved a record in front of two different
\* records of one file name, which kept their order
C19_Witness ==
    /\ Sorted(TRUE)
    /\ SortKey = Info("FileName")
    /\ Len(sort_args.data.records) = 3
    /\ LET in == sort_args.data.records
           out == sort_ret.data.records
       IN /\ ValuesOf(in) = <<OptNone, OptSome(<<"a">>), OptSome(<<"a">>)>>
          /\ in[2] # in[3]
          /\ out = <<in[2], in[3], in[1]>>

----------------------------------------------------------------------------
(* Properties of the Model. *)

\* the cursor's column is a column of the Data and in Cell mode its row is a
\* record, an index being 0 where there is no column or no record
InRange ==
    /\ WithinBound(model.cursor.x, Len(model.data.columns))
    /\ model.cursor.mode = "Cell" =>
           WithinBound(model.cursor.y, Len(model.data.records))

C20_SortKeepsCache ==
    /\ [][model_op' = "sort_by_column_index" => model'.dirty = model.dirty]_vars
    /\ [][(model_op' = "sort_by_column_index" /\ ~model.dirty) =>
              model'.cached_content_widths = ContentWidths(model'.data)]_vars

\* a clean cache after an ascending sort that put the record without the key
\* first: the Auto column is as wide as the wide value
C20_Witness ==
    /\ model_op = "sort_by_column_index"
    /\ ~model.dirty
    /\ Len(model.data.columns) = 1
    /\ model.data.columns[1].sizing = Auto
    /\ Len(model.data.records) = 2
    /\ ~get(model.data.records[1], Meta("ARTIST")).some
    /\ get(model.data.records[2], Meta("ARTIST")) = OptSome(<<"JP">>)
    /\ model.cached_content_widths = <<2>>

\* the methods that hand the columns or the records to a closure
Mutators == {"mutate_columns", "mutate_records"}

\* C21: recache called with the dirty flag clear recomputes nothing and
\* changes nothing, so a recache that follows a recache leaves the Model as
\* the first one left it.
C21_RecacheWhenClean ==
    /\ [][(model_op' = "recache" /\ ~model.dirty) =>
              (model' = model /\ ~model_call'.recomputed)]_vars
    /\ [][(model_op' = "recache" /\ model_op = "recache") =>
              (model' = model /\ ~model_call'.recomputed)]_vars

\* recache has returned without recomputing, on a Model with a column and
\* records
C21_Witness ==
    /\ model_op = "recache"
    /\ ~model_call.recomputed
    /\ Len(model.data.columns) = 1
    /\ Len(model.data.records) = 2
    /\ model.cached_content_widths = <<2>>

\* C22: mutate_columns and mutate_records apply the closure to the columns
\* (the records), return its result and leave the dirty flag set whatever the
\* closure did; the recache that follows recomputes, and a recache after it
\* does not.
C22_MutateSetsDirty ==
    /\ [](model_op \in Mutators => model.dirty)
    /\ [][model_op' = "mutate_columns" =>
              \E func \in Closures(model.data.columns, ModelColumns, MaxModelColumns) :
                  /\ model'.data.columns = Apply(func, model.data.columns).vec
                  /\ model_call'.ret = Apply(func, model.data.columns).result]_vars
    /\ [][model_op' = "mutate_records" =>
              \E func \in Closures(model.data.records, ModelRecords, MaxModelRecords) :
                  /\ model'.data.records = Apply(func, model.data.records).vec
                  /\ model_call'.ret = Apply(func, model.data.records).result]_vars
    /\ [][(model_op' = "recache" /\ model_op \in Mutators) =>
              (model_call'.recomputed /\ ~model'.dirty)]_vars
    /\ [][(model_op' = "recache" /\ model_op = "recache") =>
              ~model_call'.recomputed]_vars

\* a closure that popped from no records, changing nothing, left the flag set
C22_Witness ==
    /\ model_op = "mutate_records"
    /\ model_call.ret = NoElem
    /\ model.data.records = <<>>
    /\ model.cached_content_widths = ContentWidths(model.data)
    /\ model.dirty

\* C23 as stated: in every state of the Model there are as many cached widths
\* as columns.
C23_LengthsAlwaysEqual ==
    Len(model.cached_content_widths) = Len(model.data.columns)

\* C23: whenever the dirty flag is clear, and so after construction and at
\* the end of every recompute, where the assertion stands, there are as many
\* cached widths as columns.
C23_LengthsEqualWhenClean ==
    /\ ~model.dirty => Len(model.cached_content_widths) = Len(model.data.columns)
    /\ model_call.recomputed =>
           Len(model.cached_content_widths) = Len(model.data.columns)

\* a recompute that followed the removal of the one column
C23_Witness ==
    /\ model_op = "recache"
    /\ model_call.recomputed
    /\ model.data.columns = <<>>
    /\ model.data.records # <<>>
    /\ model.cached_content_widths = <<>>

\* C24 as stated: a Model that was just made is dirty and has no widths.
C24_CreatedDirty ==
    model_op = "with_data" =>
        /\ model.dirty
        /\ model.cached_content_widths = <<>>

\* C24: a Model that was just made is clean and has its widths, which
\* with_data computed by its own call of recache; a mutation computes no
\* widths, and the recache that finds the flag set does.
C24_CreatedClean ==
    /\ [](model_op = "with_data" =>
              /\ ~model.dirty
              /\ model_call.recomputed
              /\ model.cached_content_widths = ContentWidths(model.data))
    /\ [][model_op' \in Mutators =>
              /\ model'.cached_content_widths = model.cached_content_widths
              /\ ~model_call'.recomputed]_vars
    /\ [][(model_op' = "recache" /\ model.dirty) =>
              /\ model_call'.recomputed
              /\ model'.cached_content_widths = ContentWidths(model'.data)]_vars

\* a Model just made of an Auto column and two records, already measured
C24_Witness ==
    /\ model_op = "with_data"
    /\ Len(model.data.columns) = 1
    /\ model.data.columns[1].sizing = Auto
    /\ Len(model.data.records) = 2
    /\ model.cached_content_widths = <<2>>
    /\ ~model.dirty

\* how often r is among the records
CountIn(records, r) == Cardinality({i \in 1..Len(records) : records[i] = r})

\* the same records, each as often, in any order
SameRecords(before, after) ==
    /\ Len(before) = Len(after)
    /\ \A i \in 1..Len(before) : CountIn(after, before[i]) = CountIn(before, before[i])

----------------------------------------------------------------------------
(* Properties of the layout. *)

\* the Model of the table has been made
Made == layout.stage \in {"made", "asked"}

\* the columns and the cached widths of the table
LayoutColumns == layout.model.data.columns
LayoutWidths == layout.model.cached_content_widths

\* the largest number of a set of numbers that is not empty
SetMax(S) == CHOOSE x \in S : \A y \in S : y <= x

\* the width of the title and the widths of the records' values of the
\* column, a record without a value counting 0
MeasuredWidths(column, records) ==
    {StrWidth(column.title)}
    \cup {IF get(records[i], column.key).some
          THEN StrWidth(get(records[i], column.key).val)
          ELSE 0 : i \in 1..Len(records)}

\* C25: after a recompute each cached width is the column's sizing applied to
\* auto, the largest of the title's width and the widths of the records'
\* values: Auto gives auto, Fixed(w) gives w, Lower(min) the larger of auto
\* and min, Upper(max) the smaller of auto and max, and Bound(min, max) gives
\* auto brought into min..max.
C25_SizingPolicies ==
    Made =>
        /\ Len(LayoutWidths) = Len(LayoutColumns)
        /\ \A i \in 1..Len(LayoutColumns) :
               LET s == LayoutColumns[i].sizing
                   auto == SetMax(MeasuredWidths(LayoutColumns[i], layout.records))
                   w == LayoutWidths[i]
               IN CASE s.kind = "Auto" -> w = auto
                    [] s.kind = "Fixed" -> w = s.width
                    [] s.kind = "Lower" -> w = IF auto < s.min THEN s.min ELSE auto
                    [] s.kind = "Upper" -> w = IF auto > s.max THEN s.max ELSE auto
                    [] s.kind = "Bound" -> w = IF auto < s.min THEN s.min
                                               ELSE IF auto > s.max THEN s.max
                                               ELSE auto

\* a table whose title is wider than every value: a column bounded below by
\* 2 is 2 wide, beside an Auto column that is as wide as the title
C25_Witness ==
    /\ Made
    /\ Len(LayoutColumns) = 2
    /\ LayoutColumns[1].sizing = Lower(2)
    /\ LayoutColumns[2].sizing = Auto
    /\ layout.records # <<>>
    /\ LayoutWidths = <<2, 1>>

\* C26: a parsed pair (min, max) with min > max becomes Bound(min, min), a
\* pair with min <= max is kept, every Bound that comes out has min <= max,
\* and every parsed sizing is converted.
C26_BoundNormalised ==
    Made =>
        /\ Len(LayoutColumns) = Len(layout.reprs)
        /\ \A i \in 1..Len(layout.reprs) :
               LET r == layout.reprs[i]
                   s == LayoutColumns[i].sizing
               IN /\ s.kind = r.repr
                  /\ r.repr = "Bound" =>
                         /\ s.min = r.min
                         /\ s.max = IF r.min > r.max THEN r.min ELSE r.max
                         /\ s.min <= s.max

\* the parsed pair (2, 1) became Bound(2, 2)
C26_Witness ==
    /\ Made
    /\ Len(layout.reprs) = 1
    /\ layout.reprs[1] = ReprBound(2, 1)
    /\ LayoutColumns[1].sizing = Bound(2, 2)

\* the sum of the first k widths
RECURSIVE PrefixSum(_, _)
PrefixSum(widths, k) == IF k = 0 THEN 0 ELSE PrefixSum(widths, k - 1) + widths[k]

\* total_display_width and column_offset have returned
Asked == layout.stage = "asked"

\* C27: total_display_width is the sum of the cached widths and of a
\* separator between each two columns, and 0 when there is no column.
C27_TotalDisplayWidth ==
    Asked =>
        LET n == Len(LayoutWidths)
        IN layout.query.total =
               IF n = 0 THEN 0
               ELSE PrefixSum(LayoutWidths, n) + layout.query.column_sep_width * (n - 1)

\* two columns of widths 2 and 1 and a separator of 3 make 6
C27_Witness ==
    /\ Asked
    /\ LayoutWidths = <<2, 1>>
    /\ layout.query.column_sep_width = 3
    /\ layout.query.total = 6

\* C28: column_offset(i) of a column i that exists is the sum of the widths
\* of the columns before it and of i separators, so that the offset of the
\* last column and its width make the total width; for a column that does
\* not exist it is None.
C28_ColumnOffset ==
    Asked =>
        LET n == Len(LayoutWidths)
            i == layout.query.index
            sep == layout.query.column_sep_width
        IN IF i < n
           THEN /\ layout.query.offset =
                       [some |-> TRUE, offset |-> PrefixSum(LayoutWidths, i) + sep * i]
                /\ i = n - 1 =>
                       layout.query.offset.offset + LayoutWidths[n] = layout.query.total
           ELSE ~layout.query.offset.some

\* the second of two columns starts behind the first one's 2 cells and a
\* separator of 3
C28_Witness ==
    /\ Asked
    /\ LayoutWidths = <<2, 1>>
    /\ layout.query.column_sep_width = 3
    /\ layout.query.index = 1
    /\ layout.query.offset = [some |-> TRUE, offset |-> 5]

----------------------------------------------------------------------------
(* The mutex of the shared Model in the callbacks of TagRecordView. *)

\* the callbacks that wait for a callback they called to return
Callers == {view.stack[i] : i \in 1..(Len(view.stack) - 1)}

\* C29: no callback of TagRecordView holds the guard of the model mutex while
\* it is inside its call into the scroll view, so no closure of the canvas
\* ever locks a mutex its own thread holds (no sequence of callbacks
\* deadlocks on itself), and once the callbacks have returned the mutex is
\* free.
C29_NoSelfDeadlock ==
    /\ ~view.deadlocked
    /\ \A frame \in Callers : ~frame.guard
    /\ view.stack # <<>> /\ Top.inside => ~Top.guard /\ ~view.locked
    /\ view.stack = <<>> => ~view.locked

\* a closure of the canvas holds the mutex below a callback of the view, and
\* it is not the first one the scroll view called
C29_Witness ==
    /\ Len(view.stack) = 2
    /\ view.stack[1].fn \in ViewCallbacks
    /\ view.stack[1].inside
    /\ Top.fn \in CanvasCallbacks
    /\ Top.guard
    /\ view.locked
    /\ view.nested_left < MaxNestedCalls - 1

----------------------------------------------------------------------------
(* The cache against the live data. *)

\* the width the column's sizing gives for the titles and records at hand
PolicyWidth(column, records) ==
    LET s == column.sizing
        auto == SetMax(MeasuredWidths(column, records))
    IN CASE s.kind = "Auto" -> auto
         [] s.kind = "Fixed" -> s.width
         [] s.kind = "Lower" -> IF auto < s.min THEN s.min ELSE auto
         [] s.kind = "Upper" -> IF auto > s.max THEN s.max ELSE auto
         [] s.kind = "Bound" -> IF auto < s.min THEN s.min
                                ELSE IF auto > s.max THEN s.max ELSE auto

\* C31: whenever the dirty flag is clear the cache has one width for each
\* column, and each width is the column's sizing resolved against the titles
\* and records the Model holds now: no sequence of mutate_columns,
\* mutate_records, sorts, cursor moves and recaches reaches a state that is
\* clean but stale.
C31_CleanIsCoherent ==
    ~model.dirty =>
        /\ Len(model.cached_content_widths) = Len(model.data.columns)
        /\ \A i \in 1..Len(model.data.columns) :
               model.cached_content_widths[i] =
                   PolicyWidth(model.data.columns[i], model.data.records)

\* a recache that recomputed, after the closures changed the Data: the Auto
\* column is as wide as the wide value of one of its two records
C31_Witness ==
    /\ model_op = "recache"
    /\ model_call.recomputed
    /\ ~model.dirty
    /\ Len(model.data.columns) = 1
    /\ model.data.columns[1].sizing = Auto
    /\ Len(model.data.records) = 2
    /\ model.cached_content_widths = <<2>>

----------------------------------------------------------------------------
(* Properties of MultiFigments: what is yielded around the trim. *)

\* the trim was decided: the boundary figment has been yielded cut
TrimDecided == mf.state.kind \in {"Ellipsis", "Done"}

\* the yield of the boundary figment, the last of the figments
Boundary == mf_yield[CountOf("figment")]

\* the cells between the end of the cut figment and the ellipsis: what the
\* cut left free of the width no ellipsis can take
BoundaryPadding ==
    saturating_sub(mf_args.target_width,
                   MultiEllipsisWidth(mf_args.ellipsis, mf_args.target_width))
        - Boundary.offset - StrWidth(Boundary.fragment)

EllipsisTooWide == StrWidth(mf_args.ellipsis) > mf_args.target_width

\* C33: with an ellipsis wider than target_width no ellipsis fragment is
\* yielded and no yielded fragment extends past column target_width, for
\* every list of values, the ones that overflow the target among them.
C33_WideEllipsisNotPrinted ==
    EllipsisTooWide =>
        /\ CountOf("ellipsis") = 0
        /\ \A k \in 1..Len(mf_yield) :
               mf_yield[k].offset + StrWidth(mf_yield[k].fragment)
                   <= mf_args.target_width

\* p is the beginning of s
IsPrefix(p, s) == Len(p) <= Len(s) /\ p = SubSeq(s, 1, Len(p))

\* C34: the fragments yielded before any padding or ellipsis are, in order,
\* the first k figments of v0, sep, v1, sep, ...: all whole except possibly
\* the last, which is a prefix of its figment; the first offset is 0 and each
\* offset is the offset before it plus the display width of the fragment
\* before it.
C34_FigmentsInOrder ==
    LET f == CountOf("figment")
    IN /\ f <= Len(Interleaved)
       /\ \A k \in 1..f :
              /\ mf_yield[k].what = "figment"
              /\ k < f => mf_yield[k].fragment = Interleaved[k]
              /\ IsPrefix(mf_yield[k].fragment, Interleaved[k])
              /\ mf_yield[k].offset
                     = IF k = 1 THEN 0
                       ELSE mf_yield[k - 1].offset
                            + StrWidth(mf_yield[k - 1].fragment)

\* two values and their separator were yielded, the second value cut short
\* but not to nothing
C34_Witness ==
    /\ TrimDecided
    /\ CountOf("figment") = 3
    /\ mf_yield[2].fragment # <<>>
    /\ mf_yield[3].fragment # <<>>
    /\ mf_yield[3].fragment # Interleaved[3]
    /\ mf_yield[3].offset > mf_yield[2].offset

\* C35: in the Head state the running offset never exceeds the uncontested
\* width, the target width minus the effective ellipsis width, so the
\* subtraction uncontested_width - offset never underflows and unreachable!()
\* is never executed, whatever the values, separator, ellipsis and target.
C35_HeadWithinUncontested ==
    /\ mf.state.kind = "Head" => mf.offset <= mf.state.uncontested_width
    /\ mf_item.kind # "Panic"

\* the figments yielded so far fill the uncontested width to the last cell,
\* an ellipsis has its cells reserved, and figments are left to scan
C35_Witness ==
    /\ mf.state.kind = "Head"
    /\ mf.ellipsis_width > 0
    /\ mf.offset > 0
    /\ mf.offset = mf.state.uncontested_width
    /\ Len(mf_yield) >= 1
    /\ Len(mf_yield) < Len(Interleaved)

----------------------------------------------------------------------------
(* Cursor::shift by a delta of 0. *)

\* the cursor handed to shift is within the bounds on the axes it has
CursorWithinBounds ==
    /\ WithinBound(shift_args.cursor.x, shift_args.bound_x)
    /\ shift_args.cursor.mode = "Cell" =>
           WithinBound(shift_args.cursor.y, shift_args.bound_y)

\* C36: shift with n = 0 moves nothing and only clamps: in every direction
\* the mode stays what it was, each index is the smaller of itself and the
\* largest index of its axis, and a cursor within the bounds is returned
\* exactly as it was.
C36_ZeroShiftOnlyClamps ==
    (shift_ret.done /\ shift_args.n = 0) =>
        LET c == shift_args.cursor
            r == shift_ret.cursor
        IN /\ r.mode = c.mode
           /\ r.x = Min(c.x, MaxIdx(shift_args.bound_x))
           /\ c.mode = "Cell" => r.y = Min(c.y, MaxIdx(shift_args.bound_y))
           /\ CursorWithinBounds => r = c

\* a Column cursor within the bounds, shifted Down by 0, is still that
\* Column cursor
C36_Witness ==
    /\ shift_ret.done
    /\ shift_args.n = 0
    /\ shift_args.dir = "D"
    /\ shift_args.cursor = Column(1)
    /\ shift_args.bound_x = 3
    /\ shift_args.bound_y = 2
    /\ shift_ret.cursor = Column(1)

----------------------------------------------------------------------------
(* Properties of TagRecordView::on_event. *)

SortKeys == {"AltChar a", "AltChar d"}
UpKeys == {"Up", "PageUp"}

----------------------------------------------------------------------------
(* The frame of a sort. *)

\* C38: a sort changes nothing but the order of the records: the records
\* afterwards are the records before, each as often, none added, dropped or
\* altered; the columns and the cursor, its mode and its column and row
\* indices, are what they were.
C38_SortOnlyReorders ==
    [][model_op' = "sort_by_column_index" =>
           /\ SameRecords(model.data.records, model'.data.records)
           /\ \A i \in 1..Len(model'.data.records) :
                  \E j \in 1..Len(model.data.records) :
                      model'.data.records[i] = model.data.records[j]
           /\ model'.data.columns = model.data.columns
           /\ model'.cursor = model.cursor
           /\ model' = [model EXCEPT !.data.records = model'.data.records]]_vars

\* a sort with the cursor on the second row of two records that are the
\* same: both are still there and the cursor is on the second row
C38_Witness ==
    /\ model_op = "sort_by_column_index"
    /\ model.cursor = Cell(0, 1)
    /\ Len(model.data.columns) = 1
    /\ Len(model.data.records) = 2
    /\ model.data.records[1] = model.data.records[2]

\* C39: a sort by an index that is no column's returns normally and is a
\* no-op: the records are in the order they were in and the columns are what
\* they were.
C39_SortOutOfRange ==
    (sort_ret.done /\ sort_args.column_index >= Len(sort_args.data.columns)) =>
        /\ sort_ret.data.records = sort_args.data.records
        /\ sort_ret.data.columns = sort_args.data.columns
        /\ sort_ret.data = sort_args.data

\* a sort by the index behind the last column returned, and the records are
\* still in an order that no column's sort gives: a present value before an
\* absent one and a longer path before a shorter one
C39_Witness ==
    /\ sort_ret.done
    /\ sort_args.column_index = Len(sort_args.data.columns)
    /\ ~sort_args.is_descending
    /\ Len(sort_ret.data.records) = 2
    /\ get(sort_ret.data.records[1], Meta("ARTIST")).some
    /\ ~get(sort_ret.data.records[2], Meta("ARTIST")).some
    /\ Len(sort_ret.data.records[1].file_path) > Len(sort_ret.data.records[2].file_path)

----------------------------------------------------------------------------
(* Properties of PrintAtoms. *)

\* next() has returned None
PrintEnded == pa.called /\ ~pa.item.some

\* the string of the k-th pair is wider than its target, which has room for
\* the ellipsis
WideAtom(k) ==
    /\ StrWidth(pa.atoms[k].str) > pa.atoms[k].width
    /\ pa.atoms[k].width >= ELLIPSIS_STR_WIDTH

\* the longest prefix of s that is at most w cells wide
LongestPrefix(s, w) ==
    LET fits == {n \in 0..Len(s) : StrWidth(SubSeq(s, 1, n)) <= w}
    IN SubSeq(s, 1, CHOOSE n \in fits : \A m \in fits : m <= n)

\* the k-th pair was yielded cut to its target less the ellipsis, and right
\* behind it the ellipsis, at the column where the target less the ellipsis
\* ends
CutThenEllipsis(k) ==
    \E i \in 1..(Len(pa.yield) - 1) :
        /\ pa.yield[i].what = "value"
        /\ pa.yield[i].pair = k
        /\ pa.yield[i].str
               = LongestPrefix(pa.atoms[k].str, pa.atoms[k].width - ELLIPSIS_STR_WIDTH)
        /\ pa.yield[i + 1].what = "ellipsis"
        /\ pa.yield[i + 1].str = ELLIPSIS_STR
        /\ pa.yield[i + 1].offset
               = pa.yield[i].offset + pa.atoms[k].width - ELLIPSIS_STR_WIDTH

\* every delimiter stands between a pair and the pair behind it
DelimitersBetweenPairs ==
    \A i \in 1..Len(pa.yield) :
        pa.yield[i].what = "delimiter" =>
            /\ 1 < i /\ i < Len(pa.yield)
            /\ pa.yield[i - 1].what \in {"value", "ellipsis"}
            /\ pa.yield[i - 1].pair = pa.yield[i].pair
            /\ pa.yield[i + 1].what = "value"
            /\ pa.yield[i + 1].pair = pa.yield[i].pair + 1

\* C40: for every pair whose string is wider than its target, the target
\* being at least the ellipsis wide, the iterator yields the string cut to
\* the target less the ellipsis and right behind it the ellipsis at
\* column_start + target - ellipsis width, wherever the pair stands, the
\* last pair included; a delimiter is yielded only between two pairs.
C40_TrimmedThenEllipsis ==
    PrintEnded =>
        /\ \A k \in 1..Len(pa.atoms) : WideAtom(k) => CutThenEllipsis(k)
        /\ DelimitersBetweenPairs

\* what the iterator does give: the same for every pair but the last
C40_ExceptLastPair ==
    PrintEnded =>
        /\ \A k \in 1..(Len(pa.atoms) - 1) : WideAtom(k) => CutThenEllipsis(k)
        /\ DelimitersBetweenPairs
        /\ (pa.atoms # <<>> /\ WideAtom(Len(pa.atoms))) =>
               /\ pa.yield[Len(pa.yield)].what = "value"
               /\ pa.yield[Len(pa.yield)].pair = Len(pa.atoms)

\* the iteration ended on the cut string of a last pair: its ellipsis was
\* never yielded, behind a pair that got one
C40_Witness ==
    /\ PrintEnded
    /\ Len(pa.atoms) = 2
    /\ WideAtom(1)
    /\ WideAtom(2)
    /\ CutThenEllipsis(1)
    /\ ~CutThenEllipsis(2)
    /\ pa.yield[Len(pa.yield)].str # <<>>

====
